---- MODULE Spec2Model ----
(***************************************************************************)
(* A model of src/jahis.rs: the JAHIS electronic medicine notebook         *)
(* records, their line parsers and serializers, and the block parsers      *)
(* (DrugBlock, RpBlock, PrescriptionBlock, DispensingInformationBlock,     *)
(* MedicineNotebook).                                                      *)
(*                                                                         *)
(* A Rust String is a sequence of characters; a character is a one-letter  *)
(* TLA+ string.  The token "FW1" stands for U+FF11 (FULLWIDTH DIGIT ONE),  *)
(* a character of Unicode class Nd that is not an ASCII digit.             *)
(***************************************************************************)
EXTENDS Integers, Sequences, FiniteSets, TLC

VARIABLES
    target,   \* the type whose from_str is applied to the text
    head,     \* the lines the text opens with
    lines,    \* the input lines written after them
    sep,      \* <<>> before the parse, then the terminator the lines were joined by
    result,   \* <<>> before the parse, <<r>> once from_str has returned r
    code,     \* <<>> or <<s>>: s is to_code() of the parsed value
    doc,      \* <<>> or <<d>>: a document built field by field
    op,       \* "" or the operation applied to a single value of the target type
    arg       \* <<>> or <<a>>: the argument of that operation

vars == <<target, head, lines, sep, result, code, doc, op, arg>>

(***************************************************************************)
(* Results.  Result<T, Error> is Ok(v) or Err(kind, got); `got` is the     *)
(* text the message quotes.  A panic (unwrap on None or Err, an index      *)
(* out of range) aborts the call: Panic.                                   *)
(***************************************************************************)
Ok(v) == [ok |-> TRUE, err |-> "", got |-> <<>>, val |-> <<v>>]
Err(kind, s) == [ok |-> FALSE, err |-> kind, got |-> s, val |-> <<>>]
Panic == [ok |-> FALSE, err |-> "Panic", got |-> <<>>, val |-> <<>>]

Error == {"InvalidArgument", "InvalidRecordLine", "GotUnexpectedRecordLine",
          "MissingRequiredRecord", "Unreachable", "ParseIntError", "ParseFloatError"}

\* Option<T>: None is <<>>, Some(v) is <<v>>.
None == <<>>
Some(v) == <<v>>

(***************************************************************************)
(* Characters and the character classes of the regex crate.                *)
(***************************************************************************)
AsciiDigit == {"0", "1", "2", "3", "4", "5", "6", "7", "8", "9"}
\* \d is Unicode-aware: every Nd character.
UnicodeDigit == AsciiDigit \cup {"FW1"}
AsciiLetter == {"A", "B", "C", "D", "E", "F", "G", "H", "I", "J", "K", "L", "M",
                "N", "O", "P", "Q", "R", "S", "T", "U", "V", "W", "X", "Y", "Z",
                "a", "b", "c", "d", "e", "f", "g", "h", "i", "j", "k", "l", "m",
                "n", "o", "p", "q", "r", "s", "t", "u", "v", "w", "x", "y", "z"}
\* \w: letters, digits, underscore.
WordChar == AsciiLetter \cup UnicodeDigit \cup {"_"}

CR == "\r"
LF == "\n"
CRLF == <<CR, LF>>

AllIn(s, S) == \A i \in 1..Len(s) : s[i] \in S

DigitValue(c) ==
    CASE c = "0" -> 0 [] c = "1" -> 1 [] c = "2" -> 2 [] c = "3" -> 3
      [] c = "4" -> 4 [] c = "5" -> 5 [] c = "6" -> 6 [] c = "7" -> 7
      [] c = "8" -> 8 [] c = "9" -> 9

DigitChar(n) ==
    CASE n = 0 -> "0" [] n = 1 -> "1" [] n = 2 -> "2" [] n = 3 -> "3"
      [] n = 4 -> "4" [] n = 5 -> "5" [] n = 6 -> "6" [] n = 7 -> "7"
      [] n = 8 -> "8" [] n = 9 -> "9"

RECURSIVE DecimalValue(_)
DecimalValue(s) ==
    IF s = <<>> THEN 0
    ELSE 10 * DecimalValue(SubSeq(s, 1, Len(s) - 1)) + DigitValue(s[Len(s)])

\* n.to_string() for a non-negative integer
RECURSIVE to_string(_)
to_string(n) ==
    IF n < 10 THEN <<DigitChar(n)>>
    ELSE to_string(n \div 10) \o <<DigitChar(n % 10)>>

\* format!("{:>0w$}", n) for a non-negative integer: zero-padded to width w
RECURSIVE ZeroPad(_, _)
ZeroPad(s, w) == IF Len(s) >= w THEN s ELSE ZeroPad(<<"0">> \o s, w)

\* format!("{}", n) in the place of format!("{:>0w$}", n): no padding
Format0_unpadded(n, w) == to_string(n)

Format0(n, w) == ZeroPad(to_string(n), w)

\* str::parse::<u32>() of a text matched by \d+ or \d*: ASCII digits only
\* (a Unicode digit that the regex accepted is refused), at most u32::MAX.
parse_u32(s) ==
    IF s = <<>> \/ ~AllIn(s, AsciiDigit) THEN Err("ParseIntError", s)
    ELSE IF Len(s) <= 9 THEN Ok(DecimalValue(s))
    ELSE IF /\ AllIn(SubSeq(s, 1, Len(s) - 10), {"0"})
            /\ LET t == SubSeq(s, Len(s) - 9, Len(s))
                   hi == DecimalValue(SubSeq(t, 1, 9))
               IN  hi < 429496729 \/ (hi = 429496729 /\ DigitValue(t[10]) <= 5)
    THEN Ok(DecimalValue(SubSeq(s, Len(s) - 9, Len(s))))
    ELSE Err("ParseIntError", s)

(***************************************************************************)
(* Value domain layer: the enumerations.  A variant is its name; a         *)
(* character outside ASCII is written "U+XXXX".                            *)
(***************************************************************************)
\* enum Prefecture
Prefecture == {"Hokkaido", "Aomori", "Iwate", "Miyagi", "Akita", "Yamagata", "Fukushima", "Ibaraki",
        "Tochigi", "Gumma", "Saitama", "Chiba", "Tokyo", "Kanagawa", "Niigata", "Toyama", "Ishikawa",
        "Fukui", "Yamanashi", "Nagano", "Gifu", "Shizuoka", "Aichi", "Mie", "Shiga", "Kyoto",
        "Osaka", "Hyogo", "Nara", "Wakayama", "Tottori", "Shimane", "Okayama", "Hiroshima",
        "Yamaguchi", "Tokushima", "Kagawa", "Ehime", "Kochi", "Fukuoka", "Saga", "Nagasaki",
        "Kumamoto", "Oita", "Miyazaki", "Kagoshima", "Okinawa"}
\* `*self as u32`: the discriminant of the variant
Prefecture_as_u32(v) ==
    CASE v = "Hokkaido" -> 1
      [] v = "Aomori" -> 2
      [] v = "Iwate" -> 3
      [] v = "Miyagi" -> 4
      [] v = "Akita" -> 5
      [] v = "Yamagata" -> 6
      [] v = "Fukushima" -> 7
      [] v = "Ibaraki" -> 8
      [] v = "Tochigi" -> 9
      [] v = "Gumma" -> 10
      [] v = "Saitama" -> 11
      [] v = "Chiba" -> 12
      [] v = "Tokyo" -> 13
      [] v = "Kanagawa" -> 14
      [] v = "Niigata" -> 15
      [] v = "Toyama" -> 16
      [] v = "Ishikawa" -> 17
      [] v = "Fukui" -> 18
      [] v = "Yamanashi" -> 19
      [] v = "Nagano" -> 20
      [] v = "Gifu" -> 21
      [] v = "Shizuoka" -> 22
      [] v = "Aichi" -> 23
      [] v = "Mie" -> 24
      [] v = "Shiga" -> 25
      [] v = "Kyoto" -> 26
      [] v = "Osaka" -> 27
      [] v = "Hyogo" -> 28
      [] v = "Nara" -> 29
      [] v = "Wakayama" -> 30
      [] v = "Tottori" -> 31
      [] v = "Shimane" -> 32
      [] v = "Okayama" -> 33
      [] v = "Hiroshima" -> 34
      [] v = "Yamaguchi" -> 35
      [] v = "Tokushima" -> 36
      [] v = "Kagawa" -> 37
      [] v = "Ehime" -> 38
      [] v = "Kochi" -> 39
      [] v = "Fukuoka" -> 40
      [] v = "Saga" -> 41
      [] v = "Nagasaki" -> 42
      [] v = "Kumamoto" -> 43
      [] v = "Oita" -> 44
      [] v = "Miyazaki" -> 45
      [] v = "Kagoshima" -> 46
      [] v = "Okinawa" -> 47
Prefecture_to_code(v) == Format0(Prefecture_as_u32(v), 2)
Prefecture_fmt(v) ==
    CASE v = "Hokkaido" -> <<"U+5317", "U+6D77", "U+9053">>
      [] v = "Aomori" -> <<"U+9752", "U+68EE", "U+770C">>
      [] v = "Iwate" -> <<"U+5CA9", "U+624B", "U+770C">>
      [] v = "Miyagi" -> <<"U+5BAE", "U+57CE", "U+770C">>
      [] v = "Akita" -> <<"U+79CB", "U+7530", "U+770C">>
      [] v = "Yamagata" -> <<"U+5C71", "U+5F62", "U+770C">>
      [] v = "Fukushima" -> <<"U+798F", "U+5CF6", "U+770C">>
      [] v = "Ibaraki" -> <<"U+8328", "U+57CE", "U+770C">>
      [] v = "Tochigi" -> <<"U+6803", "U+6728", "U+770C">>
      [] v = "Gumma" -> <<"U+7FA4", "U+99AC", "U+770C">>
      [] v = "Saitama" -> <<"U+57FC", "U+7389", "U+770C">>
      [] v = "Chiba" -> <<"U+5343", "U+8449", "U+770C">>
      [] v = "Tokyo" -> <<"U+6771", "U+4EAC", "U+90FD">>
      [] v = "Kanagawa" -> <<"U+795E", "U+5948", "U+5DDD", "U+770C">>
      [] v = "Niigata" -> <<"U+65B0", "U+6F5F", "U+770C">>
      [] v = "Toyama" -> <<"U+5BCC", "U+5C71", "U+770C">>
      [] v = "Ishikawa" -> <<"U+77F3", "U+5DDD", "U+770C">>
      [] v = "Fukui" -> <<"U+798F", "U+4E95", "U+770C">>
      [] v = "Yamanashi" -> <<"U+5C71", "U+68A8", "U+770C">>
      [] v = "Nagano" -> <<"U+9577", "U+91CE", "U+770C">>
      [] v = "Gifu" -> <<"U+5C90", "U+961C", "U+770C">>
      [] v = "Shizuoka" -> <<"U+9759", "U+5CA1", "U+770C">>
      [] v = "Aichi" -> <<"U+611B", "U+77E5", "U+770C">>
      [] v = "Mie" -> <<"U+4E09", "U+91CD", "U+770C">>
      [] v = "Shiga" -> <<"U+6ECB", "U+8CC0", "U+770C">>
      [] v = "Kyoto" -> <<"U+4EAC", "U+90FD", "U+5E9C">>
      [] v = "Osaka" -> <<"U+5927", "U+962A", "U+5E9C">>
      [] v = "Hyogo" -> <<"U+5175", "U+5EAB", "U+770C">>
      [] v = "Nara" -> <<"U+5948", "U+826F", "U+770C">>
      [] v = "Wakayama" -> <<"U+548C", "U+6B4C", "U+5C71", "U+770C">>
      [] v = "Tottori" -> <<"U+9CE5", "U+53D6", "U+770C">>
      [] v = "Shimane" -> <<"U+5CF6", "U+6839", "U+770C">>
      [] v = "Okayama" -> <<"U+5CA1", "U+5C71", "U+770C">>
      [] v = "Hiroshima" -> <<"U+5E83", "U+5CF6", "U+770C">>
      [] v = "Yamaguchi" -> <<"U+5C71", "U+53E3", "U+770C">>
      [] v = "Tokushima" -> <<"U+5FB3", "U+5CF6", "U+770C">>
      [] v = "Kagawa" -> <<"U+9999", "U+5DDD", "U+770C">>
      [] v = "Ehime" -> <<"U+611B", "U+5A9B", "U+770C">>
      [] v = "Kochi" -> <<"U+9AD8", "U+77E5", "U+770C">>
      [] v = "Fukuoka" -> <<"U+798F", "U+5CA1", "U+770C">>
      [] v = "Saga" -> <<"U+4F50", "U+8CC0", "U+770C">>
      [] v = "Nagasaki" -> <<"U+9577", "U+5D0E", "U+770C">>
      [] v = "Kumamoto" -> <<"U+718A", "U+672C", "U+770C">>
      [] v = "Oita" -> <<"U+5927", "U+5206", "U+770C">>
      [] v = "Miyazaki" -> <<"U+5BAE", "U+5D0E", "U+770C">>
      [] v = "Kagoshima" -> <<"U+9E7F", "U+5150", "U+5CF6", "U+770C">>
      [] v = "Okinawa" -> <<"U+6C96", "U+7E04", "U+770C">>
Prefecture_from_str(s) ==
    CASE s \in {<<"0", "1">>, <<"J", "P", "-", "0", "1">>, <<"U+5317", "U+6D77", "U+9053">>, <<"H",
        "o", "k", "k", "a", "i", "d", "o">>} -> Ok("Hokkaido")
      [] s \in {<<"0", "2">>, <<"J", "P", "-", "0", "2">>, <<"U+9752", "U+68EE">>, <<"U+9752",
        "U+68EE", "U+770C">>, <<"A", "o", "m", "o", "r", "i">>} -> Ok("Aomori")
      [] s \in {<<"0", "3">>, <<"J", "P", "-", "0", "3">>, <<"U+5CA9", "U+624B">>, <<"U+5CA9",
        "U+624B", "U+770C">>, <<"I", "w", "a", "t", "e">>} -> Ok("Iwate")
      [] s \in {<<"0", "4">>, <<"J", "P", "-", "0", "4">>, <<"U+5BAE", "U+57CE">>, <<"U+5BAE",
        "U+57CE", "U+770C">>, <<"M", "i", "y", "a", "g", "i">>} -> Ok("Miyagi")
      [] s \in {<<"0", "5">>, <<"J", "P", "-", "0", "5">>, <<"U+79CB", "U+7530">>, <<"U+79CB",
        "U+7530", "U+770C">>, <<"A", "k", "i", "t", "a">>} -> Ok("Akita")
      [] s \in {<<"0", "6">>, <<"J", "P", "-", "0", "6">>, <<"U+5C71", "U+5F62">>, <<"U+5C71",
        "U+5F62", "U+770C">>, <<"Y", "a", "m", "a", "g", "a", "t", "a">>} -> Ok("Yamagata")
      [] s \in {<<"0", "7">>, <<"J", "P", "-", "0", "7">>, <<"U+798F", "U+5CF6">>, <<"U+798F",
        "U+5CF6", "U+770C">>, <<"F", "u", "k", "u", "s", "h", "i", "m", "a">>} -> Ok("Fukushima")
      [] s \in {<<"0", "8">>, <<"J", "P", "-", "0", "8">>, <<"U+8328", "U+57CE">>, <<"U+8328",
        "U+57CE", "U+770C">>, <<"I", "b", "a", "r", "a", "k", "i">>} -> Ok("Ibaraki")
      [] s \in {<<"0", "9">>, <<"J", "P", "-", "0", "9">>, <<"U+6803", "U+6728">>, <<"U+6803",
        "U+6728", "U+770C">>, <<"T", "o", "c", "h", "i", "g", "i">>} -> Ok("Tochigi")
      [] s \in {<<"1", "0">>, <<"J", "P", "-", "1", "0">>, <<"U+7FA4", "U+99AC">>, <<"U+7FA4",
        "U+99AC", "U+770C">>, <<"G", "u", "m", "m", "a">>} -> Ok("Gumma")
      [] s \in {<<"1", "1">>, <<"J", "P", "-", "1", "1">>, <<"U+57FC", "U+7389">>, <<"U+57FC",
        "U+7389", "U+770C">>, <<"S", "a", "i", "t", "a", "m", "a">>} -> Ok("Saitama")
      [] s \in {<<"1", "2">>, <<"J", "P", "-", "1", "2">>, <<"U+5343", "U+8449">>, <<"U+5343",
        "U+8449", "U+770C">>, <<"C", "h", "i", "b", "a">>} -> Ok("Chiba")
      [] s \in {<<"1", "3">>, <<"J", "P", "-", "1", "3">>, <<"U+6771", "U+4EAC">>, <<"U+6771",
        "U+4EAC", "U+90FD">>, <<"T", "o", "k", "y", "o">>} -> Ok("Tokyo")
      [] s \in {<<"1", "4">>, <<"J", "P", "-", "1", "4">>, <<"U+795E", "U+5948", "U+5DDD">>,
        <<"U+795E", "U+5948", "U+5DDD", "U+770C">>, <<"K", "a", "n", "a", "g", "a", "w",
        "a">>} -> Ok("Kanagawa")
      [] s \in {<<"1", "5">>, <<"J", "P", "-", "1", "5">>, <<"U+65B0", "U+6F5F">>, <<"U+65B0",
        "U+6F5F", "U+770C">>, <<"N", "i", "i", "g", "a", "t", "a">>} -> Ok("Niigata")
      [] s \in {<<"1", "6">>, <<"J", "P", "-", "1", "6">>, <<"U+5BCC", "U+5C71">>, <<"U+5BCC",
        "U+5C71", "U+770C">>, <<"T", "o", "y", "a", "m", "a">>} -> Ok("Toyama")
      [] s \in {<<"1", "7">>, <<"J", "P", "-", "1", "7">>, <<"U+77F3", "U+5DDD">>, <<"U+77F3",
        "U+5DDD", "U+770C">>, <<"I", "s", "h", "i", "k", "a", "w", "a">>} -> Ok("Ishikawa")
      [] s \in {<<"1", "8">>, <<"J", "P", "-", "1", "8">>, <<"U+798F", "U+4E95">>, <<"U+798F",
        "U+4E95", "U+770C">>, <<"F", "u", "k", "u", "i">>} -> Ok("Fukui")
      [] s \in {<<"1", "9">>, <<"J", "P", "-", "1", "9">>, <<"U+5C71", "U+68A8">>, <<"U+5C71",
        "U+68A8", "U+770C">>, <<"Y", "a", "m", "a", "n", "a", "s", "h", "i">>} -> Ok("Yamanashi")
      [] s \in {<<"2", "0">>, <<"J", "P", "-", "2", "0">>, <<"U+9577", "U+91CE">>, <<"U+9577",
        "U+91CE", "U+770C">>, <<"N", "a", "g", "a", "n", "o">>} -> Ok("Nagano")
      [] s \in {<<"2", "1">>, <<"J", "P", "-", "2", "1">>, <<"U+5C90", "U+961C">>, <<"U+5C90",
        "U+961C", "U+770C">>, <<"G", "i", "f", "u">>} -> Ok("Gifu")
      [] s \in {<<"2", "2">>, <<"J", "P", "-", "2", "2">>, <<"U+9759", "U+5CA1">>, <<"U+9759",
        "U+5CA1", "U+770C">>, <<"S", "h", "i", "z", "u", "o", "k", "a">>} -> Ok("Shizuoka")
      [] s \in {<<"2", "3">>, <<"J", "P", "-", "2", "3">>, <<"U+611B", "U+77E5">>, <<"U+611B",
        "U+77E5", "U+770C">>, <<"A", "i", "c", "h", "i">>} -> Ok("Aichi")
      [] s \in {<<"2", "4">>, <<"J", "P", "-", "2", "4">>, <<"U+4E09", "U+91CD">>, <<"U+4E09",
        "U+91CD", "U+770C">>, <<"M", "i", "e">>} -> Ok("Mie")
      [] s \in {<<"2", "5">>, <<"J", "P", "-", "2", "5">>, <<"U+6ECB", "U+8CC0">>, <<"U+6ECB",
        "U+8CC0", "U+770C">>, <<"S", "h", "i", "g", "a">>} -> Ok("Shiga")
      [] s \in {<<"2", "6">>, <<"J", "P", "-", "2", "6">>, <<"U+4EAC", "U+90FD">>, <<"U+4EAC",
        "U+90FD", "U+5E9C">>, <<"K", "y", "o", "t", "o">>} -> Ok("Kyoto")
      [] s \in {<<"2", "7">>, <<"J", "P", "-", "2", "7">>, <<"U+5927", "U+5742">>, <<"U+5927",
        "U+962A", "U+5E9C">>, <<"O", "s", "a", "k", "a">>} -> Ok("Osaka")
      [] s \in {<<"2", "8">>, <<"J", "P", "-", "2", "8">>, <<"U+5175", "U+5EAB">>, <<"U+5175",
        "U+5EAB", "U+770C">>, <<"H", "y", "o", "g", "o">>} -> Ok("Hyogo")
      [] s \in {<<"2", "9">>, <<"J", "P", "-", "2", "9">>, <<"U+5948", "U+826F">>, <<"U+5948",
        "U+826F", "U+770C">>, <<"N", "a", "r", "a">>} -> Ok("Nara")
      [] s \in {<<"3", "0">>, <<"J", "P", "-", "3", "0">>, <<"U+548C", "U+6B4C", "U+5C71">>,
        <<"U+548C", "U+6B4C", "U+5C71", "U+770C">>, <<"W", "a", "k", "a", "y", "a", "m",
        "a">>} -> Ok("Wakayama")
      [] s \in {<<"3", "1">>, <<"J", "P", "-", "3", "1">>, <<"U+9CE5", "U+53D6">>, <<"U+9CE5",
        "U+53D6", "U+770C">>, <<"T", "o", "t", "t", "o", "r", "i">>} -> Ok("Tottori")
      [] s \in {<<"3", "2">>, <<"J", "P", "-", "3", "2">>, <<"U+5CF6", "U+6839">>, <<"U+5CF6",
        "U+6839", "U+770C">>, <<"S", "h", "i", "m", "a", "n", "e">>} -> Ok("Shimane")
      [] s \in {<<"3", "3">>, <<"J", "P", "-", "3", "3">>, <<"U+5CA1", "U+5C71">>, <<"U+5CA1",
        "U+5C71", "U+770C">>, <<"O", "k", "a", "y", "a", "m", "a">>} -> Ok("Okayama")
      [] s \in {<<"3", "4">>, <<"J", "P", "-", "3", "4">>, <<"U+5E83", "U+5CF6">>, <<"U+5E83",
        "U+5CF6", "U+770C">>, <<"H", "i", "r", "o", "s", "h", "i", "m", "a">>} -> Ok("Hiroshima")
      [] s \in {<<"3", "5">>, <<"J", "P", "-", "3", "5">>, <<"U+5C71", "U+53E3">>, <<"U+5C71",
        "U+53E3", "U+770C">>, <<"Y", "a", "m", "a", "g", "u", "c", "h", "i">>} -> Ok("Yamaguchi")
      [] s \in {<<"3", "6">>, <<"J", "P", "-", "3", "6">>, <<"U+5FB3", "U+5CF6">>, <<"U+5FB3",
        "U+5CF6", "U+770C">>, <<"T", "o", "k", "u", "s", "h", "i", "m", "a">>} -> Ok("Tokushima")
      [] s \in {<<"3", "7">>, <<"J", "P", "-", "3", "7">>, <<"U+9999", "U+5DDD">>, <<"U+9999",
        "U+5DDD", "U+770C">>, <<"K", "a", "g", "a", "w", "a">>} -> Ok("Kagawa")
      [] s \in {<<"3", "8">>, <<"J", "P", "-", "3", "8">>, <<"U+611B", "U+5A9B">>, <<"U+611B",
        "U+5A9B", "U+770C">>, <<"E", "h", "i", "m", "e">>} -> Ok("Ehime")
      [] s \in {<<"3", "9">>, <<"J", "P", "-", "3", "9">>, <<"U+9AD8", "U+77E5">>, <<"U+9AD8",
        "U+77E5", "U+770C">>, <<"K", "o", "c", "h", "i">>} -> Ok("Kochi")
      [] s \in {<<"4", "0">>, <<"J", "P", "-", "4", "0">>, <<"U+798F", "U+5CA1">>, <<"U+798F",
        "U+5CA1", "U+770C">>, <<"F", "u", "k", "u", "o", "k", "a">>} -> Ok("Fukuoka")
      [] s \in {<<"4", "1">>, <<"J", "P", "-", "4", "1">>, <<"U+4F50", "U+8CC0">>, <<"U+4F50",
        "U+8CC0", "U+770C">>, <<"S", "a", "g", "a">>} -> Ok("Saga")
      [] s \in {<<"4", "2">>, <<"J", "P", "-", "4", "2">>, <<"U+9577", "U+5D0E">>, <<"U+9577",
        "U+5D0E", "U+770C">>, <<"N", "a", "g", "a", "s", "a", "k", "i">>} -> Ok("Nagasaki")
      [] s \in {<<"4", "3">>, <<"J", "P", "-", "4", "3">>, <<"U+718A", "U+672C">>, <<"U+718A",
        "U+672C", "U+770C">>, <<"K", "u", "m", "a", "m", "o", "t", "o">>} -> Ok("Kumamoto")
      [] s \in {<<"4", "4">>, <<"J", "P", "-", "4", "4">>, <<"U+5927", "U+5206">>, <<"U+5927",
        "U+5206", "U+770C">>, <<"O", "i", "t", "a">>} -> Ok("Oita")
      [] s \in {<<"4", "5">>, <<"J", "P", "-", "4", "5">>, <<"U+5BAE", "U+5D0E">>, <<"U+5BAE",
        "U+5D0E", "U+770C">>, <<"M", "i", "y", "a", "z", "a", "k", "i">>} -> Ok("Miyazaki")
      [] s \in {<<"4", "6">>, <<"J", "P", "-", "4", "6">>, <<"U+9E7F", "U+5150", "U+5CF6">>,
        <<"U+9E7F", "U+5150", "U+5CF6", "U+770C">>, <<"K", "a", "g", "o", "s", "h", "i", "m",
        "a">>} -> Ok("Kagoshima")
      [] s \in {<<"4", "7">>, <<"J", "P", "-", "4", "7">>, <<"U+6C96", "U+7E04">>, <<"U+6C96",
        "U+7E04", "U+770C">>, <<"O", "k", "i", "n", "a", "w", "a">>} -> Ok("Okinawa")
      [] OTHER -> Err("InvalidArgument", s)
Prefecture_try_from(n) ==
    CASE n = 1 -> Ok("Hokkaido")
      [] n = 2 -> Ok("Aomori")
      [] n = 3 -> Ok("Iwate")
      [] n = 4 -> Ok("Miyagi")
      [] n = 5 -> Ok("Akita")
      [] n = 6 -> Ok("Yamagata")
      [] n = 7 -> Ok("Fukushima")
      [] n = 8 -> Ok("Ibaraki")
      [] n = 9 -> Ok("Tochigi")
      [] n = 10 -> Ok("Gumma")
      [] n = 11 -> Ok("Saitama")
      [] n = 12 -> Ok("Chiba")
      [] n = 13 -> Ok("Tokyo")
      [] n = 14 -> Ok("Kanagawa")
      [] n = 15 -> Ok("Niigata")
      [] n = 16 -> Ok("Toyama")
      [] n = 17 -> Ok("Ishikawa")
      [] n = 18 -> Ok("Fukui")
      [] n = 19 -> Ok("Yamanashi")
      [] n = 20 -> Ok("Nagano")
      [] n = 21 -> Ok("Gifu")
      [] n = 22 -> Ok("Shizuoka")
      [] n = 23 -> Ok("Aichi")
      [] n = 24 -> Ok("Mie")
      [] n = 25 -> Ok("Shiga")
      [] n = 26 -> Ok("Kyoto")
      [] n = 27 -> Ok("Osaka")
      [] n = 28 -> Ok("Hyogo")
      [] n = 29 -> Ok("Nara")
      [] n = 30 -> Ok("Wakayama")
      [] n = 31 -> Ok("Tottori")
      [] n = 32 -> Ok("Shimane")
      [] n = 33 -> Ok("Okayama")
      [] n = 34 -> Ok("Hiroshima")
      [] n = 35 -> Ok("Yamaguchi")
      [] n = 36 -> Ok("Tokushima")
      [] n = 37 -> Ok("Kagawa")
      [] n = 38 -> Ok("Ehime")
      [] n = 39 -> Ok("Kochi")
      [] n = 40 -> Ok("Fukuoka")
      [] n = 41 -> Ok("Saga")
      [] n = 42 -> Ok("Nagasaki")
      [] n = 43 -> Ok("Kumamoto")
      [] n = 44 -> Ok("Oita")
      [] n = 45 -> Ok("Miyazaki")
      [] n = 46 -> Ok("Kagoshima")
      [] n = 47 -> Ok("Okinawa")
      [] OTHER -> Err("InvalidArgument", to_string(n))

\* enum FeeTable
FeeTable == {"Medicine", "Dentistry", "Pharmacy"}
\* `*self as u32`: the discriminant of the variant
FeeTable_as_u32(v) ==
    CASE v = "Medicine" -> 1
      [] v = "Dentistry" -> 3
      [] v = "Pharmacy" -> 4
FeeTable_to_code(v) == to_string(FeeTable_as_u32(v))
FeeTable_fmt(v) ==
    CASE v = "Medicine" -> <<"U+533B", "U+79D1">>
      [] v = "Dentistry" -> <<"U+6B6F", "U+79D1">>
      [] v = "Pharmacy" -> <<"U+8ABF", "U+5264">>
FeeTable_from_str(s) ==
    CASE s \in {<<"1">>, <<"U+533B", "U+79D1">>} -> Ok("Medicine")
      [] s \in {<<"3">>, <<"U+6B6F", "U+79D1">>} -> Ok("Dentistry")
      [] s \in {<<"4">>, <<"U+8ABF", "U+5264">>} -> Ok("Pharmacy")
      [] OTHER -> Err("InvalidArgument", s)
\* try_from over the numbers 1, 2, 3 in the place of 1, 3, 4
FeeTable_try_from_dense(n) ==
    CASE n = 1 -> Ok("Medicine")
      [] n = 2 -> Ok("Dentistry")
      [] n = 3 -> Ok("Pharmacy")
      [] OTHER -> Err("InvalidArgument", to_string(n))
FeeTable_try_from(n) ==
    CASE n = 1 -> Ok("Medicine")
      [] n = 3 -> Ok("Dentistry")
      [] n = 4 -> Ok("Pharmacy")
      [] OTHER -> Err("InvalidArgument", to_string(n))

\* enum DosageForm
DosageForm == {"OralAdministration", "Drop", "Potion", "Injection", "ExternalUse", "Infusodecoction",
        "Decoction", "Material", "Other"}
\* `*self as u32`: the discriminant of the variant
DosageForm_as_u32(v) ==
    CASE v = "OralAdministration" -> 1
      [] v = "Drop" -> 2
      [] v = "Potion" -> 3
      [] v = "Injection" -> 4
      [] v = "ExternalUse" -> 5
      [] v = "Infusodecoction" -> 6
      [] v = "Decoction" -> 7
      [] v = "Material" -> 9
      [] v = "Other" -> 10
DosageForm_to_code(v) == to_string(DosageForm_as_u32(v))
DosageForm_fmt(v) ==
    CASE v = "OralAdministration" -> <<"U+5185", "U+670D">>
      [] v = "Drop" -> <<"U+5185", "U+6EF4">>
      [] v = "Potion" -> <<"U+9813", "U+670D">>
      [] v = "Injection" -> <<"U+6CE8", "U+5C04">>
      [] v = "ExternalUse" -> <<"U+5916", "U+7528">>
      [] v = "Infusodecoction" -> <<"U+6D78", "U+714E">>
      [] v = "Decoction" -> <<"U+6E6F">>
      [] v = "Material" -> <<"U+6750", "U+6599">>
      [] v = "Other" -> <<"U+305D", "U+306E", "U+4ED6">>
DosageForm_from_str(s) ==
    CASE s \in {<<"1">>, <<"U+5185", "U+670D">>} -> Ok("OralAdministration")
      [] s \in {<<"2">>, <<"U+5185", "U+6EF4">>} -> Ok("Drop")
      [] s \in {<<"3">>, <<"U+9813", "U+670D">>} -> Ok("Potion")
      [] s \in {<<"4">>, <<"U+6CE8", "U+5C04">>} -> Ok("Injection")
      [] s \in {<<"5">>, <<"U+5916", "U+7528">>} -> Ok("ExternalUse")
      [] s \in {<<"6">>, <<"U+6D78", "U+714E">>} -> Ok("Infusodecoction")
      [] s \in {<<"7">>, <<"U+6E6F">>} -> Ok("Decoction")
      [] s \in {<<"9">>, <<"U+6750", "U+6599">>} -> Ok("Material")
      [] s \in {<<"1", "0">>, <<"U+305D", "U+306E", "U+4ED6">>} -> Ok("Other")
      [] OTHER -> Err("InvalidArgument", s)
DosageForm_try_from(n) ==
    CASE n = 1 -> Ok("OralAdministration")
      [] n = 2 -> Ok("Drop")
      [] n = 3 -> Ok("Potion")
      [] n = 4 -> Ok("Injection")
      [] n = 5 -> Ok("ExternalUse")
      [] n = 6 -> Ok("Infusodecoction")
      [] n = 7 -> Ok("Decoction")
      [] n = 9 -> Ok("Material")
      [] n = 10 -> Ok("Other")
      [] OTHER -> Err("InvalidArgument", to_string(n))

\* enum RecordCreator
RecordCreator == {"MedicalExpert", "Patient", "Other", "Unknown"}
\* `*self as u32`: the discriminant of the variant
RecordCreator_as_u32(v) ==
    CASE v = "MedicalExpert" -> 1
      [] v = "Patient" -> 2
      [] v = "Other" -> 8
      [] v = "Unknown" -> 9
RecordCreator_to_code(v) == to_string(RecordCreator_as_u32(v))
RecordCreator_fmt(v) ==
    CASE v = "MedicalExpert" -> <<"U+533B", "U+7642", "U+95A2", "U+4FC2", "U+8005">>
      [] v = "Patient" -> <<"U+60A3", "U+8005", "U+7B49">>
      [] v = "Other" -> <<"U+305D", "U+306E", "U+4ED6">>
      [] v = "Unknown" -> <<"U+4E0D", "U+660E">>
RecordCreator_from_str(s) ==
    CASE s \in {<<"1">>, <<"U+533B", "U+7642", "U+95A2", "U+4FC2",
        "U+8005">>} -> Ok("MedicalExpert")
      [] s \in {<<"2">>, <<"U+60A3", "U+8005", "U+7B49">>, <<"U+60A3", "U+8005", "U+306A",
        "U+3069">>, <<"U+60A3", "U+8005">>} -> Ok("Patient")
      [] s \in {<<"8">>, <<"U+305D", "U+306E", "U+4ED6">>} -> Ok("Other")
      [] s \in {<<"9">>, <<"U+4E0D", "U+660E">>} -> Ok("Unknown")
      [] OTHER -> Err("InvalidArgument", s)
RecordCreator_try_from(n) ==
    CASE n = 1 -> Ok("MedicalExpert")
      [] n = 2 -> Ok("Patient")
      [] n = 8 -> Ok("Other")
      [] n = 9 -> Ok("Unknown")
      [] OTHER -> Err("InvalidArgument", to_string(n))

\* enum OutputCategory
OutputCategory == {"ToPatient", "FromPatinet"}
\* `*self as u32`: the discriminant of the variant
OutputCategory_as_u32(v) ==
    CASE v = "ToPatient" -> 1
      [] v = "FromPatinet" -> 2
OutputCategory_to_code(v) == to_string(OutputCategory_as_u32(v))
OutputCategory_fmt(v) ==
    CASE v = "ToPatient" -> <<"U+533B", "U+7642", "U+6A5F", "U+95A2", "U+30FB", "U+85AC", "U+5C40",
        "U+304B", "U+3089", "U+60A3", "U+8005", "U+7B49", "U+306B", "U+60C5", "U+5831", "U+3092",
        "U+63D0", "U+4F9B", "U+3059", "U+308B", "U+5834", "U+5408">>
      [] v = "FromPatinet" -> <<"U+60A3", "U+8005", "U+7B49", "U+304B", "U+3089", "U+533B", "U+7642",
        "U+6A5F", "U+95A2", "U+30FB", "U+85AC", "U+5C40", "U+306B", "U+60C5", "U+5831", "U+3092",
        "U+63D0", "U+4F9B", "U+3059", "U+308B", "U+5834", "U+5408">>
OutputCategory_from_str(s) ==
    CASE s \in {<<"1">>} -> Ok("ToPatient")
      [] s \in {<<"2">>} -> Ok("FromPatinet")
      [] OTHER -> Err("InvalidArgument", s)
OutputCategory_try_from(n) ==
    CASE n = 1 -> Ok("ToPatient")
      [] n = 2 -> Ok("FromPatinet")
      [] OTHER -> Err("InvalidArgument", to_string(n))

\* enum Gender
Gender == {"Male", "Female"}
\* `*self as u32`: the discriminant of the variant
Gender_as_u32(v) ==
    CASE v = "Male" -> 1
      [] v = "Female" -> 2
Gender_to_code(v) == to_string(Gender_as_u32(v))
Gender_fmt(v) ==
    CASE v = "Male" -> <<"U+7537", "U+6027">>
      [] v = "Female" -> <<"U+5973", "U+6027">>
Gender_from_str(s) ==
    CASE s \in {<<"1">>, <<"U+7537">>, <<"U+7537", "U+6027">>, <<"m", "a", "l", "e">>} -> Ok("Male")
      [] s \in {<<"2">>, <<"U+5973">>, <<"U+5973", "U+6027">>, <<"f", "e", "m", "a", "l",
        "e">>} -> Ok("Female")
      [] OTHER -> Err("InvalidArgument", s)
Gender_try_from(n) ==
    CASE n = 1 -> Ok("Male")
      [] n = 2 -> Ok("Female")
      [] OTHER -> Err("InvalidArgument", to_string(n))

\* enum SpecialPatientNoteCategory
SpecialPatientNoteCategory == {"Allergy", "AdverseEvent", "PastHistory", "Other"}
\* The discriminants without `Other = 9`: Other follows PastHistory as 4.
SpecialPatientNoteCategory_as_u32_dense(v) ==
    CASE v = "Allergy" -> 1
      [] v = "AdverseEvent" -> 2
      [] v = "PastHistory" -> 3
      [] v = "Other" -> 4
\* `*self as u32`: the discriminant of the variant
SpecialPatientNoteCategory_as_u32(v) ==
    CASE v = "Allergy" -> 1
      [] v = "AdverseEvent" -> 2
      [] v = "PastHistory" -> 3
      [] v = "Other" -> 9
SpecialPatientNoteCategory_to_code(v) == to_string(SpecialPatientNoteCategory_as_u32(v))
SpecialPatientNoteCategory_fmt(v) ==
    CASE v = "Allergy" -> <<"U+30A2", "U+30EC", "U+30EB", "U+30AE", "U+30FC", "U+6B74">>
      [] v = "AdverseEvent" -> <<"U+526F", "U+4F5C", "U+7528", "U+6B74">>
      [] v = "PastHistory" -> <<"U+65E2", "U+5F80", "U+6B74">>
      [] v = "Other" -> <<"U+305D", "U+306E", "U+4ED6">>
SpecialPatientNoteCategory_from_str(s) ==
    CASE s \in {<<"1">>, <<"U+30A2", "U+30EC", "U+30EB", "U+30AE", "U+30FC", "U+6B74">>, <<"U+30A2",
        "U+30EC", "U+30EB", "U+30AE", "U+30FC">>, <<"a", "l", "l", "e", "r", "g",
        "y">>} -> Ok("Allergy")
      [] s \in {<<"2">>, <<"U+526F", "U+4F5C", "U+7528", "U+6B74">>, <<"U+526F", "U+4F5C",
        "U+7528">>, <<"a", "d", "v", "e", "r", "s", "e", " ", "e", "v", "e", "n",
        "t">>} -> Ok("AdverseEvent")
      [] s \in {<<"3">>, <<"U+65E2", "U+5F80", "U+6B74">>, <<"U+65E2", "U+5F80">>, <<"p", "a", "s",
        "t", " ", "h", "i", "s", "t", "o", "r", "y">>} -> Ok("PastHistory")
      [] s \in {<<"9">>, <<"U+305D", "U+306E", "U+4ED6">>, <<"o", "t", "h", "e",
        "r">>} -> Ok("Other")
      [] OTHER -> Err("InvalidArgument", s)
SpecialPatientNoteCategory_try_from(n) ==
    CASE n = 1 -> Ok("Allergy")
      [] n = 2 -> Ok("AdverseEvent")
      [] n = 3 -> Ok("PastHistory")
      [] n = 9 -> Ok("Other")
      [] OTHER -> Err("InvalidArgument", to_string(n))

\* enum DrugCodeType
DrugCodeType == {"None", "Receipt", "Mhlw", "Yj", "Hot"}
DrugCodeType_to_code(v) ==
    CASE v = "None" -> <<"1">>
      [] v = "Receipt" -> <<"2">>
      [] v = "Mhlw" -> <<"3">>
      [] v = "Yj" -> <<"4">>
      [] v = "Hot" -> <<"6">>
DrugCodeType_fmt(v) ==
    CASE v = "None" -> <<"U+30B3", "U+30FC", "U+30C9", "U+306A", "U+3057">>
      [] v = "Receipt" -> <<"U+30EC", "U+30BB", "U+30D7", "U+30C8", "U+96FB", "U+7B97", "U+30B3",
        "U+30FC", "U+30C9">>
      [] v = "Mhlw" -> <<"U+539A", "U+52B4", "U+7701", "U+30B3", "U+30FC", "U+30C9">>
      [] v = "Yj" -> <<"Y", "J", "U+30B3", "U+30FC", "U+30C9">>
      [] v = "Hot" -> <<"H", "O", "T", "U+30B3", "U+30FC", "U+30C9">>
DrugCodeType_from_str(s) ==
    CASE s \in {<<"1">>, <<"U+30B3", "U+30FC", "U+30C9", "U+306A", "U+3057">>, <<"n", "o", "n",
        "e">>} -> Ok("None")
      [] s \in {<<"2">>, <<"U+30EC", "U+30BB", "U+30D7", "U+30C8", "U+96FB", "U+7B97", "U+30B3",
        "U+30FC", "U+30C9">>, <<"U+30EC", "U+30BB", "U+30D7", "U+30C8">>, <<"r", "e", "c", "e", "i",
        "p", "t">>} -> Ok("Receipt")
      [] s \in {<<"3">>, <<"U+539A", "U+52B4", "U+7701", "U+30B3", "U+30FC", "U+30C9">>, <<"U+539A",
        "U+751F", "U+52B4", "U+50CD", "U+7701", "U+30B3", "U+30FC", "U+30C9">>, <<"U+539A", "U+52B4",
        "U+7701">>, <<"U+539A", "U+751F", "U+52B4", "U+50CD", "U+7701">>, <<"M", "H", "L",
        "W">>} -> Ok("Mhlw")
      [] s \in {<<"4">>, <<"Y", "J", "U+30B3", "U+30FC", "U+30C9">>, <<"Y", "J">>} -> Ok("Yj")
      [] s \in {<<"6">>, <<"H", "O", "T", "U+30B3", "U+30FC", "U+30C9">>, <<"H", "O",
        "T">>} -> Ok("Hot")
      [] OTHER -> Err("InvalidArgument", s)
DrugCodeType_try_from(n) ==
    CASE n = 1 -> Ok("None")
      [] n = 2 -> Ok("Receipt")
      [] n = 3 -> Ok("Mhlw")
      [] n = 4 -> Ok("Yj")
      [] n = 6 -> Ok("Hot")
      [] OTHER -> Err("InvalidArgument", to_string(n))

\* enum UsageCodeType
UsageCodeType == {"None", "Jami"}
UsageCodeType_to_code(v) ==
    CASE v = "None" -> <<"1">>
      [] v = "Jami" -> <<"2">>
UsageCodeType_fmt(v) ==
    CASE v = "None" -> <<"U+30B3", "U+30FC", "U+30C9", "U+306A", "U+3057">>
      [] v = "Jami" -> <<"J", "A", "M", "I", "U+7528", "U+6CD5", "U+30B3", "U+30FC", "U+30C9">>
UsageCodeType_from_str(s) ==
    CASE s \in {<<"1">>, <<"U+30B3", "U+30FC", "U+30C9", "U+306A", "U+3057">>, <<"n", "o", "n",
        "e">>} -> Ok("None")
      [] s \in {<<"2">>, <<"J", "A", "M", "I", "U+7528", "U+6CD5", "U+30B3", "U+30FC", "U+30C9">>,
        <<"J", "A", "M", "I", "U+30B3", "U+30FC", "U+30C9">>, <<"J", "A", "M", "I">>} -> Ok("Jami")
      [] OTHER -> Err("InvalidArgument", s)
UsageCodeType_try_from(n) ==
    CASE n = 1 -> Ok("None")
      [] n = 2 -> Ok("Jami")
      [] OTHER -> Err("InvalidArgument", to_string(n))

\* enum ProvidedInformationType
ProvidedInformationType == {"AdverseEventInHospital", "PostDischargeCare", "Other"}
ProvidedInformationType_to_code(v) ==
    CASE v = "AdverseEventInHospital" -> <<"3", "0">>
      [] v = "PostDischargeCare" -> <<"3", "1">>
      [] v = "Other" -> <<"9", "9">>
ProvidedInformationType_fmt(v) ==
    CASE v = "AdverseEventInHospital" -> <<"U+5165", "U+9662", "U+4E2D", "U+306B", "U+526F",
        "U+4F5C", "U+7528", "U+304C", "U+767A", "U+73FE", "U+3057", "U+305F", "U+85AC", "U+5264",
        "U+306B", "U+95A2", "U+3059", "U+308B", "U+60C5", "U+5831">>
      [] v = "PostDischargeCare" -> <<"U+9000", "U+9662", "U+5F8C", "U+306E", "U+7642", "U+990A",
        "U+3092", "U+62C5", "U+3046", "U+4FDD", "U+967A", "U+533B", "U+7642", "U+6A5F", "U+95A2",
        "U+3067", "U+306E", "U+6295", "U+85AC", "U+53C8", "U+306F", "U+4FDD", "U+967A", "U+85AC",
        "U+5C40", "U+3067", "U+306E", "U+8ABF", "U+5264", "U+306B", "U+5FC5", "U+8981", "U+306A",
        "U+670D", "U+85AC", "U+306E", "U+72B6", "U+6CC1", "U+53CA", "U+3073", "U+6295", "U+85AC",
        "U+4E0A", "U+306E", "U+5DE5", "U+592B", "U+306B", "U+95A2", "U+3059", "U+308B", "U+60C5",
        "U+5831">>
      [] v = "Other" -> <<"U+305D", "U+306E", "U+4ED6">>
ProvidedInformationType_from_str(s) ==
    CASE s \in {<<"3", "0">>} -> Ok("AdverseEventInHospital")
      [] s \in {<<"3", "1">>} -> Ok("PostDischargeCare")
      [] s \in {<<"9", "9">>} -> Ok("Other")
      [] OTHER -> Err("InvalidArgument", s)
ProvidedInformationType_try_from(n) ==
    CASE n = 30 -> Ok("AdverseEventInHospital")
      [] n = 31 -> Ok("PostDischargeCare")
      [] n = 99 -> Ok("Other")
      [] OTHER -> Err("InvalidArgument", to_string(n))

(***************************************************************************)
(* GengoYear and Date.                                                     *)
(***************************************************************************)
\* str::parse::<i32>() of a text of Unicode digits
parse_i32(s) ==
    IF s = <<>> \/ ~AllIn(s, AsciiDigit) THEN Err("ParseIntError", s)
    ELSE IF Len(s) <= 9 THEN Ok(DecimalValue(s))
    ELSE IF /\ AllIn(SubSeq(s, 1, Len(s) - 10), {"0"})
            /\ LET t == SubSeq(s, Len(s) - 9, Len(s))
                   hi == DecimalValue(SubSeq(t, 1, 9))
               IN  hi < 214748364 \/ (hi = 214748364 /\ DigitValue(t[10]) <= 7)
    THEN Ok(DecimalValue(SubSeq(s, Len(s) - 9, Len(s))))
    ELSE Err("ParseIntError", s)

\* enum GengoYear { Reiwa(i32), Heisei(i32), Showa(i32), Taisho(i32), Meiji(i32) }
GengoYear(era, y) == [era |-> era, y |-> y]

GengoLetter(era) ==
    CASE era = "Reiwa" -> "R" [] era = "Heisei" -> "H" [] era = "Showa" -> "S"
      [] era = "Taisho" -> "T" [] era = "Meiji" -> "M"

GengoYear_to_code(g) == <<GengoLetter(g.era)>> \o Format0(g.y, 2)

\* ^([RrHhSsTtMm<squares>]|<kanji names>)(\d+|U+5143)U+5E74?$
GengoYear_from_str(s) ==
    LET body == IF s # <<>> /\ s[Len(s)] = "U+5E74" THEN SubSeq(s, 1, Len(s) - 1) ELSE s
        kanji == {<<"U+4EE4", "U+548C">>, <<"U+5E73", "U+6210">>, <<"U+662D", "U+548C">>,
                  <<"U+5927", "U+6B63">>, <<"U+660E", "U+6CBB">>}
        single == {"R", "r", "H", "h", "S", "s", "T", "t", "M", "m",
                   "U+32FF", "U+337B", "U+337C", "U+337D", "U+337E"}
        n == IF Len(body) >= 2 /\ SubSeq(body, 1, 2) \in kanji THEN 2
             ELSE IF Len(body) >= 1 /\ body[1] \in single THEN 1 ELSE 0
        g == SubSeq(body, 1, n)
        num == SubSeq(body, n + 1, Len(body))
        matches == n > 0 /\ num # <<>> /\ (num = <<"U+5143">> \/ AllIn(num, UnicodeDigit))
        year == IF num = <<"U+5143">> THEN Ok(1) ELSE parse_i32(num)
    IN  IF ~matches THEN Err("InvalidArgument", s)
        ELSE IF ~year.ok THEN year
        ELSE IF g \in {<<"U+4EE4", "U+548C">>, <<"U+32FF">>, <<"R">>, <<"r">>}
             THEN Ok(GengoYear("Reiwa", year.val[1]))
        ELSE IF g \in {<<"U+5E73", "U+6210">>, <<"U+337B">>, <<"H">>, <<"h">>}
             THEN Ok(GengoYear("Heisei", year.val[1]))
        ELSE IF g \in {<<"U+662D", "U+548C">>, <<"U+337C">>, <<"S">>, <<"s">>}
             THEN Ok(GengoYear("Showa", year.val[1]))
        ELSE IF g \in {<<"U+5927", "U+6B63">>, <<"U+337D">>, <<"T">>, <<"t">>}
             THEN Ok(GengoYear("Taisho", year.val[1]))
        ELSE IF g \in {<<"U+660E", "U+6CBB">>, <<"U+337E">>, <<"M">>, <<"m">>}
             THEN Ok(GengoYear("Meiji", year.val[1]))
        ELSE Err("Unreachable", s)

\* enum Date { Seireki{year, month, day}, Wareki{gengo_year, month, day} }
Seireki(y, m, d) == [form |-> "Seireki", gengo |-> "", year |-> y, month |-> m, day |-> d]
Wareki(g, m, d) == [form |-> "Wareki", gengo |-> g.era, year |-> g.y, month |-> m, day |-> d]

Date_to_code(d) ==
    IF d.form = "Seireki"
    THEN Format0(d.year, 4) \o Format0(d.month, 2) \o Format0(d.day, 2)
    ELSE GengoYear_to_code(GengoYear(d.gengo, d.year))
             \o Format0(d.month, 2) \o Format0(d.day, 2)

\* RE_SEIREKI8 = ^(\d{4})(\d{2})(\d{2})?$      RE_WAREKI7 = ^([RHSTM]\d{2})(\d{2})(\d{2})$
\* Every capture is parsed with unwrap(); &cap[3] of a group that took no
\* part in the match panics.
Date_from_str(s) ==
    IF Len(s) \in {6, 8} /\ AllIn(s, UnicodeDigit)
    THEN LET y == parse_i32(SubSeq(s, 1, 4))
             m == parse_u32(SubSeq(s, 5, 6))
         IN  IF ~y.ok \/ ~m.ok THEN Panic
             ELSE IF Len(s) = 6 THEN Panic
             ELSE LET d == parse_u32(SubSeq(s, 7, 8))
                  IN  IF ~d.ok THEN Panic
                      ELSE Ok(Seireki(y.val[1], m.val[1], d.val[1]))
    ELSE IF Len(s) = 7 /\ s[1] \in {"R", "H", "S", "T", "M"}
              /\ AllIn(SubSeq(s, 2, 7), UnicodeDigit)
    THEN LET m == parse_u32(SubSeq(s, 4, 5))
             d == parse_u32(SubSeq(s, 6, 7))
             gy == GengoYear_from_str(SubSeq(s, 1, 3))
         IN  IF ~m.ok \/ ~d.ok \/ ~gy.ok THEN Panic
             ELSE Ok(Wareki(gy.val[1], m.val[1], d.val[1]))
    ELSE Err("InvalidArgument", s)

\* The year of the Gregorian calendar that year y of an era is.
GengoOffset(era) ==
    CASE era = "Reiwa" -> 2018 [] era = "Heisei" -> 1988 [] era = "Showa" -> 1925
      [] era = "Taisho" -> 1911 [] era = "Meiji" -> 1867

\* chrono::NaiveDate::from_ymd_opt(y, m, d).is_some(): day d of month m exists
\* in year y of the proleptic Gregorian calendar.
DaysInMonth(y, m) ==
    IF m \in {4, 6, 9, 11} THEN 30
    ELSE IF m = 2 THEN (IF y % 4 = 0 /\ (y % 100 # 0 \/ y % 400 = 0) THEN 29 ELSE 28)
    ELSE 31

from_ymd(y, m, d) ==
    IF m \in 1..12 /\ d >= 1 /\ d <= DaysInMonth(y, m)
    THEN Ok([year |-> y, month |-> m, day |-> d])
    ELSE Panic

\* Date::to_naivedate: chrono::NaiveDate::from_ymd panics on a date that does
\* not exist.
Date_to_naivedate(d) ==
    IF d.form = "Seireki" THEN from_ymd(d.year, d.month, d.day)
    ELSE from_ymd(d.year + GengoOffset(d.gengo), d.month, d.day)

\* Date::to_seireki8
Date_to_seireki8(d) ==
    IF d.form = "Seireki"
    THEN Format0(d.year, 4) \o Format0(d.month, 2) \o Format0(d.day, 2)
    ELSE Format0(d.year + GengoOffset(d.gengo), 4) \o Format0(d.month, 2)
             \o Format0(d.day, 2)

\* format!("{:?}", date) of a Date::Seireki
Date_debug(d) ==
    <<"S", "e", "i", "r", "e", "k", "i", " ", "{", " ", "y", "e", "a", "r", ":", " ">>
        \o to_string(d.year) \o <<",", " ", "m", "o", "n", "t", "h", ":", " ">>
        \o to_string(d.month) \o <<",", " ", "d", "a", "y", ":", " ">> \o to_string(d.day)
        \o <<" ", "}">>

\* Date::try_to_wareki7 with the comparison `d >= 8` of the Heisei branch
\* written `d > 8`.
Date_try_to_wareki7_late(d) ==
    LET y == d.year
        m == d.month
        md == Format0(d.month, 2) \o Format0(d.day, 2)
    IN  IF d.form = "Seireki"
        THEN IF y > 2019 \/ (y = 2019 /\ m >= 5)
             THEN Ok(<<"R">> \o Format0(y - 2018, 2) \o md)
             ELSE IF y > 1989 \/ (y = 1989 /\ m > 1) \/ (y = 1989 /\ m = 1 /\ d.day > 8)
             THEN Ok(<<"H">> \o Format0(y - 1988, 2) \o md)
             ELSE IF y > 1926 \/ (y = 1926 /\ m = 12 /\ d.day >= 25)
             THEN Ok(<<"S">> \o Format0(y - 1925, 2) \o md)
             ELSE IF y > 1912 \/ (y = 1912 /\ m > 7) \/ (y = 1912 /\ m = 7 /\ d.day >= 30)
             THEN Ok(<<"T">> \o Format0(y - 1911, 2) \o md)
             ELSE IF y > 1872
             THEN Ok(<<"M">> \o Format0(y - 1867, 2) \o md)
             ELSE Err("InvalidArgument", Date_debug(d))
        ELSE Ok(<<GengoLetter(d.gengo)>> \o Format0(y, 2) \o md)

\* Date::try_to_wareki7
Date_try_to_wareki7(d) ==
    LET y == d.year
        m == d.month
        md == Format0(d.month, 2) \o Format0(d.day, 2)
    IN  IF d.form = "Seireki"
        THEN IF y > 2019 \/ (y = 2019 /\ m >= 5)
             THEN Ok(<<"R">> \o Format0(y - 2018, 2) \o md)
             ELSE IF y > 1989 \/ (y = 1989 /\ m > 1) \/ (y = 1989 /\ m = 1 /\ d.day >= 8)
             THEN Ok(<<"H">> \o Format0(y - 1988, 2) \o md)
             ELSE IF y > 1926 \/ (y = 1926 /\ m = 12 /\ d.day >= 25)
             THEN Ok(<<"S">> \o Format0(y - 1925, 2) \o md)
             ELSE IF y > 1912 \/ (y = 1912 /\ m > 7) \/ (y = 1912 /\ m = 7 /\ d.day >= 30)
             THEN Ok(<<"T">> \o Format0(y - 1911, 2) \o md)
             ELSE IF y > 1872
             THEN Ok(<<"M">> \o Format0(y - 1867, 2) \o md)
             ELSE Err("InvalidArgument", Date_debug(d))
        ELSE Ok(<<GengoLetter(d.gengo)>> \o Format0(y, 2) \o md)

(***************************************************************************)
(* Record layer: helpers.  No pattern of a record lets a group hold a      *)
(* comma, so a line matches ^g1,g2,...,gn$ exactly when it splits at its   *)
(* commas into n fields and field i matches gi.                            *)
(***************************************************************************)
RECURSIVE Fields(_)
Fields(s) ==
    IF \A i \in 1..Len(s) : s[i] # ","
    THEN <<s>>
    ELSE LET i == CHOOSE k \in 1..Len(s) :
                      s[k] = "," /\ \A j \in 1..(k - 1) : s[j] # ","
         IN  <<SubSeq(s, 1, i - 1)>> \o Fields(SubSeq(s, i + 1, Len(s)))

RECURSIVE Join(_, _)
Join(parts, by) ==
    IF parts = <<>> THEN <<>>
    ELSE IF Len(parts) = 1 THEN parts[1]
    ELSE parts[1] \o by \o Join(Tail(parts), by)

JoinComma(fields) == Join(fields, <<",">>)

\* characters of the model that \w does not match
NonWordChar == {",", ".", "-", "+", " ", CR, LF, "U+32FF", "U+337B", "U+337C", "U+337D", "U+337E"}

RxDigit(f) == Len(f) = 1 /\ AllIn(f, UnicodeDigit)                \* \d
RxDigits(f) == Len(f) >= 1 /\ AllIn(f, UnicodeDigit)              \* \d+
RxDigitsStar(f) == AllIn(f, UnicodeDigit)                         \* \d*
RxDigitOpt(f) == Len(f) <= 1 /\ AllIn(f, UnicodeDigit)            \* \d?
RxDigits0to2(f) == Len(f) <= 2 /\ AllIn(f, UnicodeDigit)          \* \d{0,2}
RxDigits1to2(f) == Len(f) \in {1, 2} /\ AllIn(f, UnicodeDigit)    \* \d{1,2}
RxDate(f) ==                                                      \* \d{8}|\w\d{6}
    \/ Len(f) = 8 /\ AllIn(f, UnicodeDigit)
    \/ Len(f) = 7 /\ f[1] \notin NonWordChar /\ AllIn(SubSeq(f, 2, 7), UnicodeDigit)
RxDateOpt(f) == f = <<>> \/ RxDate(f)                             \* (?:\d{8}|\w\d{6})?
RxFloatOpt(f) ==                              \* (?:[0-9]+(?:[.][0-9]*)?|[.][0-9]+)?
    \/ f = <<>>
    \/ \E k \in 1..Len(f) :
           /\ AllIn(SubSeq(f, 1, k), AsciiDigit)
           /\ k = Len(f) \/ (f[k + 1] = "." /\ AllIn(SubSeq(f, k + 2, Len(f)), AsciiDigit))
    \/ Len(f) >= 2 /\ f[1] = "." /\ AllIn(SubSeq(f, 2, Len(f)), AsciiDigit)

\* The value of an Ok result (only read after .ok was tested).
Val(r) == IF r.ok THEN r.val[1] ELSE <<>>
\* The first failure among the sub-field results, in field order, else Ok(v).
Try(rs, v) ==
    IF \E i \in 1..Len(rs) : ~rs[i].ok
    THEN rs[CHOOSE i \in 1..Len(rs) : ~rs[i].ok /\ \A j \in 1..(i - 1) : rs[j].ok]
    ELSE Ok(v)
SomeOf(r) == IF r.ok THEN Ok(Some(r.val[1])) ELSE r
\* if cap.is_empty() {None} else {Some(cap.to_string())}
OptStr(f) == IF f = <<>> THEN None ELSE Some(f)
\* if cap.is_empty() {None} else {Some(cap.parse()?)}
OptDate(f) == IF f = <<>> THEN Ok(None) ELSE SomeOf(Date_from_str(f))
\* opt.map(|v| v.to_code()).unwrap_or_default()
OptCode(o, F(_)) == IF o = <<>> THEN <<>> ELSE F(o[1])
Identity(x) == x

\* f32: a decimal numeral of at most 7 significant digits is held exactly as
\* its integer part and its fraction digits without trailing zeros.
RECURSIVE StripTrailingZeros(_)
StripTrailingZeros(s) ==
    IF s # <<>> /\ s[Len(s)] = "0" THEN StripTrailingZeros(SubSeq(s, 1, Len(s) - 1)) ELSE s

parse_f32(s) ==
    LET dot == IF \E k \in 1..Len(s) : s[k] = "."
               THEN CHOOSE k \in 1..Len(s) : s[k] = "." ELSE Len(s) + 1
    IN  Ok([int |-> DecimalValue(SubSeq(s, 1, dot - 1)),
            frac |-> StripTrailingZeros(SubSeq(s, dot + 1, Len(s)))])

f32_to_string(v) ==
    to_string(v.int) \o (IF v.frac = <<>> THEN <<>> ELSE <<".">> \o v.frac)

(***************************************************************************)
(* Record layer: one line parser (impl FromStr) and one serializer         *)
(* (to_code) per record.  A record's sub-fields are parsed in the order    *)
(* of the struct literal; `?` returns the first failure.                   *)
(***************************************************************************)
JAHISTC == <<"J", "A", "H", "I", "S", "T", "C">>

\* Version record: ^JAHISTC(\d\d),(\d)$
VersionRecord_from_str(s) ==
    LET f == Fields(s)
    IN  IF /\ Len(f) = 2 /\ Len(f[1]) = 9 /\ SubSeq(f[1], 1, 7) = JAHISTC
           /\ AllIn(SubSeq(f[1], 8, 9), UnicodeDigit) /\ RxDigit(f[2])
        THEN LET number == parse_u32(SubSeq(f[1], 8, 9))
                 output_category == OutputCategory_from_str(f[2])
             IN  Try(<<number, output_category>>,
                     [number |-> Val(number), output_category |-> Val(output_category)])
        ELSE Err("InvalidRecordLine", s)

\* format!("JAHISTC{:>02},{}", self.number, self.output_category.to_code())
VersionRecord_to_code(r) ==
    JAHISTC \o Format0(r.number, 2) \o <<",">> \o OutputCategory_to_code(r.output_category)

\* No. 1
PatientRecord_from_str(s) ==
    LET f == Fields(s)
    IN  IF /\ Len(f) = 11 /\ RxDigits(f[1]) /\ RxDigit(f[3]) /\ RxDate(f[4])
           /\ RxFloatOpt(f[10])
        THEN IF f[1] = <<"1">>
             THEN LET name == Ok(f[2])
                      gender == Gender_from_str(f[3])
                      day_of_birth == Date_from_str(f[4])
                      zip_code == Ok(OptStr(f[5]))
                      address == Ok(OptStr(f[6]))
                      telephone == Ok(OptStr(f[7]))
                      emergency_contact_information == Ok(OptStr(f[8]))
                      blood_type == Ok(OptStr(f[9]))
                      body_weight == IF f[10] = <<>> THEN Ok(None) ELSE SomeOf(parse_f32(f[10]))
                      name_in_kana == Ok(OptStr(f[11]))
                  IN  Try(<<name, gender, day_of_birth, zip_code, address, telephone,
                            emergency_contact_information, blood_type, body_weight,
                            name_in_kana>>,
                          [name |-> Val(name), gender |-> Val(gender),
                           day_of_birth |-> Val(day_of_birth), zip_code |-> Val(zip_code),
                           address |-> Val(address), telephone |-> Val(telephone),
                           emergency_contact_information |-> Val(emergency_contact_information),
                           blood_type |-> Val(blood_type), body_weight |-> Val(body_weight),
                           name_in_kana |-> Val(name_in_kana)])
             ELSE Err("InvalidRecordLine", s)
        ELSE Err("InvalidRecordLine", s)

PatientRecord_to_code(r) ==
    JoinComma(<<to_string(1), r.name, Gender_to_code(r.gender), Date_to_code(r.day_of_birth),
                OptCode(r.zip_code, Identity), OptCode(r.address, Identity),
                OptCode(r.telephone, Identity),
                OptCode(r.emergency_contact_information, Identity),
                OptCode(r.blood_type, Identity), OptCode(r.body_weight, f32_to_string),
                OptCode(r.name_in_kana, Identity)>>)

\* No. 2: ^(\d+),(\d),([^,]*),(\d)$
SpecialPatientNoteRecord_from_str(s) ==
    LET f == Fields(s)
    IN  IF /\ Len(f) = 4 /\ RxDigits(f[1]) /\ RxDigit(f[2]) /\ RxDigit(f[4])
        THEN IF f[1] = <<"2">>
             THEN LET category == SpecialPatientNoteCategory_from_str(f[2])
                      content == Ok(f[3])
                      created_by == RecordCreator_from_str(f[4])
                  IN  Try(<<category, content, created_by>>,
                          [category |-> Val(category), content |-> Val(content),
                           created_by |-> Val(created_by)])
             ELSE Err("InvalidRecordLine", s)
        ELSE Err("InvalidRecordLine", s)

SpecialPatientNoteRecord_to_code(r) ==
    JoinComma(<<to_string(2), SpecialPatientNoteCategory_to_code(r.category), r.content,
                RecordCreator_to_code(r.created_by)>>)

\* No. 3: ^(\d+),([^,]*),((?:\d{8}|\w\d{6})?),((?:\d{8}|\w\d{6})?),(\d)$
OtcDrugRecord_from_str(s) ==
    LET f == Fields(s)
    IN  IF /\ Len(f) = 5 /\ RxDigits(f[1]) /\ RxDateOpt(f[3]) /\ RxDateOpt(f[4])
           /\ RxDigit(f[5])
        THEN IF f[1] = <<"3">>
             THEN LET drug_name == Ok(f[2])
                      start_date == OptDate(f[3])
                      end_date == OptDate(f[4])
                      created_by == RecordCreator_from_str(f[5])
                  IN  Try(<<drug_name, start_date, end_date, created_by>>,
                          [drug_name |-> Val(drug_name), start_date |-> Val(start_date),
                           end_date |-> Val(end_date), created_by |-> Val(created_by)])
             ELSE Err("InvalidRecordLine", s)
        ELSE Err("InvalidRecordLine", s)

OtcDrugRecord_to_code(r) ==
    JoinComma(<<to_string(3), r.drug_name, OptCode(r.start_date, Date_to_code),
                OptCode(r.end_date, Date_to_code), RecordCreator_to_code(r.created_by)>>)

\* No. 4: ^(\d+),([^,]*),((?:\d{8}|\w\d{6})?),(\d)$
MemoRecord_from_str(s) ==
    LET f == Fields(s)
    IN  IF /\ Len(f) = 4 /\ RxDigits(f[1]) /\ RxDateOpt(f[3]) /\ RxDigit(f[4])
        THEN IF f[1] = <<"4">>
             THEN LET content == Ok(f[2])
                      created_at == OptDate(f[3])
                      created_by == RecordCreator_from_str(f[4])
                  IN  Try(<<content, created_at, created_by>>,
                          [content |-> Val(content), created_at |-> Val(created_at),
                           created_by |-> Val(created_by)])
             ELSE Err("InvalidRecordLine", s)
        ELSE Err("InvalidRecordLine", s)

MemoRecord_to_code(r) ==
    JoinComma(<<to_string(4), r.content, OptCode(r.created_at, Date_to_code),
                RecordCreator_to_code(r.created_by)>>)

\* No. 5: ^(\d+),(\d{8}|\w\d{6}),(\d)$
DateRecord_from_str(s) ==
    LET f == Fields(s)
    IN  IF /\ Len(f) = 3 /\ RxDigits(f[1]) /\ RxDate(f[2]) /\ RxDigit(f[3])
        THEN IF f[1] = <<"5">>
             THEN LET created_at == Date_from_str(f[2])
                      created_by == RecordCreator_from_str(f[3])
                  IN  Try(<<created_at, created_by>>,
                          [created_at |-> Val(created_at), created_by |-> Val(created_by)])
             ELSE Err("InvalidRecordLine", s)
        ELSE Err("InvalidRecordLine", s)

DateRecord_to_code(r) ==
    JoinComma(<<to_string(5), Date_to_code(r.created_at), RecordCreator_to_code(r.created_by)>>)

\* No. 11: ^(\d+),([^,]*),(\d{0,2}),(\d?),([^,]*),([^,]*),([^,]*),([^,]*),(\d)$
PharmacyRecord_from_str(s) ==
    LET f == Fields(s)
    IN  IF /\ Len(f) = 9 /\ RxDigits(f[1]) /\ RxDigits0to2(f[3]) /\ RxDigitOpt(f[4])
           /\ RxDigit(f[9])
        THEN IF f[1] = <<"1", "1">>
             THEN LET name == Ok(f[2])
                      prefecture == IF f[3] = <<>> THEN Ok(None) ELSE SomeOf(Prefecture_from_str(f[3]))
                      fee_table == IF f[4] = <<>> THEN Ok(None) ELSE SomeOf(FeeTable_from_str(f[4]))
                      institution_code == Ok(OptStr(f[5]))
                      zip_code == Ok(OptStr(f[6]))
                      address == Ok(OptStr(f[7]))
                      telephone == Ok(OptStr(f[8]))
                      created_by == RecordCreator_from_str(f[9])
                  IN  Try(<<name, prefecture, fee_table, institution_code, zip_code, address, telephone, created_by>>,
                          [name |-> Val(name), prefecture |-> Val(prefecture),
                           fee_table |-> Val(fee_table),
                           institution_code |-> Val(institution_code),
                           zip_code |-> Val(zip_code), address |-> Val(address),
                           telephone |-> Val(telephone), created_by |-> Val(created_by)])
             ELSE Err("InvalidRecordLine", s)
        ELSE Err("InvalidRecordLine", s)

PharmacyRecord_to_code(r) ==
    JoinComma(<<to_string(11), r.name, OptCode(r.prefecture, Prefecture_to_code),
                OptCode(r.fee_table, FeeTable_to_code), OptCode(r.institution_code, Identity),
                OptCode(r.zip_code, Identity), OptCode(r.address, Identity),
                OptCode(r.telephone, Identity), RecordCreator_to_code(r.created_by)>>)

\* No. 15: ^(\d+),([^,]*),([^,]*),(\d)$
PharmacistRecord_from_str(s) ==
    LET f == Fields(s)
    IN  IF /\ Len(f) = 4 /\ RxDigits(f[1]) /\ RxDigit(f[4])
        THEN IF f[1] = <<"1", "5">>
             THEN LET name == Ok(f[2])
                      contact_information == Ok(OptStr(f[3]))
                      created_by == RecordCreator_from_str(f[4])
                  IN  Try(<<name, contact_information, created_by>>,
                          [name |-> Val(name), contact_information |-> Val(contact_information),
                           created_by |-> Val(created_by)])
             ELSE Err("InvalidRecordLine", s)
        ELSE Err("InvalidRecordLine", s)

PharmacistRecord_to_code(r) ==
    JoinComma(<<to_string(15), r.name, OptCode(r.contact_information, Identity),
                RecordCreator_to_code(r.created_by)>>)

\* No. 51: ^(\d+),([^,]*),(\d{0,2}),(\d?),([^,]*),(\d)$
MedicalInstitutionRecord_from_str(s) ==
    LET f == Fields(s)
    IN  IF /\ Len(f) = 6 /\ RxDigits(f[1]) /\ RxDigits0to2(f[3]) /\ RxDigitOpt(f[4])
           /\ RxDigit(f[6])
        THEN IF f[1] = <<"5", "1">>
             THEN LET name == Ok(f[2])
                      prefecture == IF f[3] = <<>> THEN Ok(None) ELSE SomeOf(Prefecture_from_str(f[3]))
                      fee_table == IF f[4] = <<>> THEN Ok(None) ELSE SomeOf(FeeTable_from_str(f[4]))
                      institution_code == Ok(OptStr(f[5]))
                      created_by == RecordCreator_from_str(f[6])
                  IN  Try(<<name, prefecture, fee_table, institution_code, created_by>>,
                          [name |-> Val(name), prefecture |-> Val(prefecture),
                           fee_table |-> Val(fee_table),
                           institution_code |-> Val(institution_code),
                           created_by |-> Val(created_by)])
             ELSE Err("InvalidRecordLine", s)
        ELSE Err("InvalidRecordLine", s)

MedicalInstitutionRecord_to_code(r) ==
    JoinComma(<<to_string(51), r.name, OptCode(r.prefecture, Prefecture_to_code),
                OptCode(r.fee_table, FeeTable_to_code), OptCode(r.institution_code, Identity),
                RecordCreator_to_code(r.created_by)>>)

\* No. 55: ^(\d+),([^,]*),([^,]*),(\d)$
PhysicianRecord_from_str(s) ==
    LET f == Fields(s)
    IN  IF /\ Len(f) = 4 /\ RxDigits(f[1]) /\ RxDigit(f[4])
        THEN IF f[1] = <<"5", "5">>
             THEN LET name == Ok(f[2])
                      specialty == Ok(OptStr(f[3]))
                      created_by == RecordCreator_from_str(f[4])
                  IN  Try(<<name, specialty, created_by>>,
                          [name |-> Val(name), specialty |-> Val(specialty),
                           created_by |-> Val(created_by)])
             ELSE Err("InvalidRecordLine", s)
        ELSE Err("InvalidRecordLine", s)

PhysicianRecord_to_code(r) ==
    JoinComma(<<to_string(55), r.name, OptCode(r.specialty, Identity),
                RecordCreator_to_code(r.created_by)>>)

\* No. 201: ^(\d+),(\d+),([^,]*),([^,]*),([^,]*),(\d?),([^,]*),(\d)$
DrugRecord_from_str(s) ==
    LET f == Fields(s)
    IN  IF /\ Len(f) = 8 /\ RxDigits(f[1]) /\ RxDigits(f[2]) /\ RxDigitOpt(f[6])
           /\ RxDigit(f[8])
        THEN IF f[1] = <<"2", "0", "1">>
             THEN LET rp_number == parse_u32(f[2])
                      name == Ok(f[3])
                      dosage == Ok(f[4])
                      unit == Ok(f[5])
                      drug_code_type == DrugCodeType_from_str(f[6])
                      drug_code == Ok(OptStr(f[7]))
                      created_by == RecordCreator_from_str(f[8])
                  IN  Try(<<rp_number, name, dosage, unit, drug_code_type, drug_code, created_by>>,
                          [rp_number |-> Val(rp_number), name |-> Val(name),
                           dosage |-> Val(dosage), unit |-> Val(unit),
                           drug_code_type |-> Val(drug_code_type), drug_code |-> Val(drug_code),
                           created_by |-> Val(created_by)])
             ELSE Err("InvalidRecordLine", s)
        ELSE Err("InvalidRecordLine", s)

DrugRecord_to_code(r) ==
    JoinComma(<<to_string(201), to_string(r.rp_number), r.name, r.dosage, r.unit,
                DrugCodeType_to_code(r.drug_code_type), OptCode(r.drug_code, Identity),
                RecordCreator_to_code(r.created_by)>>)

\* No. 281: ^(\d+),(\d+),([^,]*),(\d)$
DrugSupplementaryRecord_from_str(s) ==
    LET f == Fields(s)
    IN  IF /\ Len(f) = 4 /\ RxDigits(f[1]) /\ RxDigits(f[2]) /\ RxDigit(f[4])
        THEN IF f[1] = <<"2", "8", "1">>
             THEN LET rp_number == parse_u32(f[2])
                      content == Ok(f[3])
                      created_by == RecordCreator_from_str(f[4])
                  IN  Try(<<rp_number, content, created_by>>,
                          [rp_number |-> Val(rp_number), content |-> Val(content),
                           created_by |-> Val(created_by)])
             ELSE Err("InvalidRecordLine", s)
        ELSE Err("InvalidRecordLine", s)

DrugSupplementaryRecord_to_code(r) ==
    JoinComma(<<to_string(281), to_string(r.rp_number), r.content,
                RecordCreator_to_code(r.created_by)>>)

\* No. 291: ^(\d+),(\d+),([^,]*),(\d)$
DrugNoticeRecord_from_str(s) ==
    LET f == Fields(s)
    IN  IF /\ Len(f) = 4 /\ RxDigits(f[1]) /\ RxDigits(f[2]) /\ RxDigit(f[4])
        THEN IF f[1] = <<"2", "9", "1">>
             THEN LET rp_number == parse_u32(f[2])
                      content == Ok(f[3])
                      created_by == RecordCreator_from_str(f[4])
                  IN  Try(<<rp_number, content, created_by>>,
                          [rp_number |-> Val(rp_number), content |-> Val(content),
                           created_by |-> Val(created_by)])
             ELSE Err("InvalidRecordLine", s)
        ELSE Err("InvalidRecordLine", s)

DrugNoticeRecord_to_code(r) ==
    JoinComma(<<to_string(291), to_string(r.rp_number), r.content,
                RecordCreator_to_code(r.created_by)>>)

\* No. 301: ^(\d+),(\d+),([^,]*),(\d*),([^,]*),(\d*),(\d?),([^,]*),(\d)$
UsageRecord_from_str(s) ==
    LET f == Fields(s)
    IN  IF /\ Len(f) = 9 /\ RxDigits(f[1]) /\ RxDigits(f[2]) /\ RxDigitsStar(f[4])
           /\ RxDigitsStar(f[6]) /\ RxDigitOpt(f[7]) /\ RxDigit(f[9])
        THEN IF f[1] = <<"3", "0", "1">>
             THEN LET rp_number == parse_u32(f[2])
                      name == Ok(f[3])
                      quantity == IF f[4] = <<>> THEN Ok(None) ELSE SomeOf(parse_u32(f[4]))
                      unit == Ok(OptStr(f[5]))
                      dosage_form == IF f[6] = <<>> THEN Ok(None) ELSE SomeOf(DosageForm_from_str(f[6]))
                      usage_code_type == IF f[7] = <<>> THEN Ok(None) ELSE SomeOf(UsageCodeType_from_str(f[7]))
                      usage_code == Ok(OptStr(f[8]))
                      created_by == RecordCreator_from_str(f[9])
                  IN  Try(<<rp_number, name, quantity, unit, dosage_form, usage_code_type, usage_code, created_by>>,
                          [rp_number |-> Val(rp_number), name |-> Val(name),
                           quantity |-> Val(quantity), unit |-> Val(unit),
                           dosage_form |-> Val(dosage_form),
                           usage_code_type |-> Val(usage_code_type),
                           usage_code |-> Val(usage_code), created_by |-> Val(created_by)])
             ELSE Err("InvalidRecordLine", s)
        ELSE Err("InvalidRecordLine", s)

UsageRecord_to_code(r) ==
    JoinComma(<<to_string(301), to_string(r.rp_number), r.name, OptCode(r.quantity, to_string),
                OptCode(r.unit, Identity), OptCode(r.dosage_form, DosageForm_to_code),
                OptCode(r.usage_code_type, UsageCodeType_to_code),
                OptCode(r.usage_code, Identity), RecordCreator_to_code(r.created_by)>>)

\* No. 311: ^(\d+),(\d+),([^,]*),(\d)$
UsageSupplementaryRecord_from_str(s) ==
    LET f == Fields(s)
    IN  IF /\ Len(f) = 4 /\ RxDigits(f[1]) /\ RxDigits(f[2]) /\ RxDigit(f[4])
        THEN IF f[1] = <<"3", "1", "1">>
             THEN LET rp_number == parse_u32(f[2])
                      content == Ok(f[3])
                      created_by == RecordCreator_from_str(f[4])
                  IN  Try(<<rp_number, content, created_by>>,
                          [rp_number |-> Val(rp_number), content |-> Val(content),
                           created_by |-> Val(created_by)])
             ELSE Err("InvalidRecordLine", s)
        ELSE Err("InvalidRecordLine", s)

UsageSupplementaryRecord_to_code(r) ==
    JoinComma(<<to_string(311), to_string(r.rp_number), r.content,
                RecordCreator_to_code(r.created_by)>>)

\* No. 391: ^(\d+),(\d+),([^,]*),(\d)$
RpNoticeRecord_from_str(s) ==
    LET f == Fields(s)
    IN  IF /\ Len(f) = 4 /\ RxDigits(f[1]) /\ RxDigits(f[2]) /\ RxDigit(f[4])
        THEN IF f[1] = <<"3", "9", "1">>
             THEN LET rp_number == parse_u32(f[2])
                      content == Ok(f[3])
                      created_by == RecordCreator_from_str(f[4])
                  IN  Try(<<rp_number, content, created_by>>,
                          [rp_number |-> Val(rp_number), content |-> Val(content),
                           created_by |-> Val(created_by)])
             ELSE Err("InvalidRecordLine", s)
        ELSE Err("InvalidRecordLine", s)

RpNoticeRecord_to_code(r) ==
    JoinComma(<<to_string(391), to_string(r.rp_number), r.content,
                RecordCreator_to_code(r.created_by)>>)

\* No. 401: ^(\d+),([^,]*),(\d)$
NoticeRecord_from_str(s) ==
    LET f == Fields(s)
    IN  IF /\ Len(f) = 3 /\ RxDigits(f[1]) /\ RxDigit(f[3])
        THEN IF f[1] = <<"4", "0", "1">>
             THEN LET content == Ok(f[2])
                      created_by == RecordCreator_from_str(f[3])
                  IN  Try(<<content, created_by>>,
                          [content |-> Val(content), created_by |-> Val(created_by)])
             ELSE Err("InvalidRecordLine", s)
        ELSE Err("InvalidRecordLine", s)

NoticeRecord_to_code(r) ==
    JoinComma(<<to_string(401), r.content, RecordCreator_to_code(r.created_by)>>)

\* No. 411: ^(\d+),([^,]*),(\d{1,2}),(\d)$
InformationProvisionRecord_from_str(s) ==
    LET f == Fields(s)
    IN  IF /\ Len(f) = 4 /\ RxDigits(f[1]) /\ RxDigits1to2(f[3]) /\ RxDigit(f[4])
        THEN IF f[1] = <<"4", "1", "1">>
             THEN LET content == Ok(f[2])
                      information_type == ProvidedInformationType_from_str(f[3])
                      created_by == RecordCreator_from_str(f[4])
                  IN  Try(<<content, information_type, created_by>>,
                          [content |-> Val(content), information_type |-> Val(information_type),
                           created_by |-> Val(created_by)])
             ELSE Err("InvalidRecordLine", s)
        ELSE Err("InvalidRecordLine", s)

InformationProvisionRecord_to_code(r) ==
    JoinComma(<<to_string(411), r.content, ProvidedInformationType_to_code(r.information_type),
                RecordCreator_to_code(r.created_by)>>)

\* No. 501: ^(\d+),([^,]*),(\d)$
NoteRecord_from_str(s) ==
    LET f == Fields(s)
    IN  IF /\ Len(f) = 3 /\ RxDigits(f[1]) /\ RxDigit(f[3])
        THEN IF f[1] = <<"5", "0", "1">>
             THEN LET content == Ok(f[2])
                      created_by == RecordCreator_from_str(f[3])
                  IN  Try(<<content, created_by>>,
                          [content |-> Val(content), created_by |-> Val(created_by)])
             ELSE Err("InvalidRecordLine", s)
        ELSE Err("InvalidRecordLine", s)

NoteRecord_to_code(r) ==
    JoinComma(<<to_string(501), r.content, RecordCreator_to_code(r.created_by)>>)

\* No. 601: ^(\d+),([^,]*),((?:\d{8}|\w\d{6})?)$
FromPatientRecord_from_str(s) ==
    LET f == Fields(s)
    IN  IF /\ Len(f) = 3 /\ RxDigits(f[1]) /\ RxDateOpt(f[3])
        THEN IF f[1] = <<"6", "0", "1">>
             THEN LET content == Ok(f[2])
                      created_at == IF f[2] = <<>> THEN Ok(None) ELSE SomeOf(Date_from_str(f[3]))
                  IN  Try(<<content, created_at>>,
                          [content |-> Val(content), created_at |-> Val(created_at)])
             ELSE Err("InvalidRecordLine", s)
        ELSE Err("InvalidRecordLine", s)

FromPatientRecord_to_code(r) ==
    JoinComma(<<to_string(601), r.content, OptCode(r.created_at, Date_to_code)>>)

\* No. 701: ^(\d+),([^,]*),([^,]*),([^,]*),((?:\d{8}|\w\d{6})?),((?:\d{8}|\w\d{6})?),(\d)$
FamilyPharmacistRecord_from_str(s) ==
    LET f == Fields(s)
    IN  IF /\ Len(f) = 7 /\ RxDigits(f[1]) /\ RxDateOpt(f[5]) /\ RxDateOpt(f[6])
           /\ RxDigit(f[7])
        THEN IF f[1] = <<"7", "0", "1">>
             THEN LET name == Ok(f[2])
                      pharmacy_name == Ok(f[3])
                      contact_information == Ok(f[4])
                      start_date == OptDate(f[5])
                      end_date == OptDate(f[6])
                      created_by == RecordCreator_from_str(f[7])
                  IN  Try(<<name, pharmacy_name, contact_information, start_date, end_date, created_by>>,
                          [name |-> Val(name), pharmacy_name |-> Val(pharmacy_name),
                           contact_information |-> Val(contact_information),
                           start_date |-> Val(start_date), end_date |-> Val(end_date),
                           created_by |-> Val(created_by)])
             ELSE Err("InvalidRecordLine", s)
        ELSE Err("InvalidRecordLine", s)

FamilyPharmacistRecord_to_code(r) ==
    JoinComma(<<to_string(701), r.name, r.pharmacy_name, r.contact_information,
                OptCode(r.start_date, Date_to_code), OptCode(r.end_date, Date_to_code),
                RecordCreator_to_code(r.created_by)>>)

(***************************************************************************)
(* Block layer.  Every from_str walks s.lines() once; the loop body is     *)
(* the _step operator, the locals of the function are the fields of `st`,  *)
(* and st.ret holds the value of an early `return` (or of a panic).        *)
(***************************************************************************)
\* str::lines(): the text is cut after every "\n"; the "\n" and one "\r"
\* before it are dropped.  A "\r" that no "\n" follows ends no line.
RECURSIVE str_lines(_)
str_lines(s) ==
    IF s = <<>> THEN <<>>
    ELSE IF \A i \in 1..Len(s) : s[i] # LF THEN <<s>>
    ELSE LET i == CHOOSE k \in 1..Len(s) : s[k] = LF /\ \A j \in 1..(k - 1) : s[j] # LF
             raw == SubSeq(s, 1, i - 1)
             line == IF raw # <<>> /\ raw[Len(raw)] = CR
                     THEN SubSeq(raw, 1, Len(raw) - 1) ELSE raw
         IN  <<line>> \o str_lines(SubSeq(s, i + 1, Len(s)))

\* &line[..sep] with sep = line.char_indices().nth(n).unwrap().0: the first
\* n characters; the unwrap panics unless the line has more than n characters.
Prefix(line, n) == SubSeq(line, 1, n)
Return(st, r) == [st EXCEPT !.ret = <<r>>]

\* `x = f(line.parse()?)`: the parsed value r is stored by `set`, an Err returns.
Bind(st, r, set(_, _)) == IF r.ok THEN set(st, Val(r)) ELSE Return(st, r)

T2(a) == <<a, ",">>
T3(a, b) == <<a, b, ",">>
T4(a, b, c) == <<a, b, c, ",">>

\* ---- DrugBlock ----
DrugBlock_to_code(b) ==
    Join(<<DrugRecord_to_code(b.drug)>>
           \o [i \in 1..Len(b.drug_supplementary) |->
                  DrugSupplementaryRecord_to_code(b.drug_supplementary[i])]
           \o [i \in 1..Len(b.drug_notice) |-> DrugNoticeRecord_to_code(b.drug_notice[i])],
         CRLF)

DrugBlock_init ==
    [drug |-> None, drug_supplementary |-> <<>>, drug_notice |-> <<>>, ret |-> <<>>]

DrugBlock_step(st, line) ==
    IF Len(line) >= 4
    THEN IF Len(line) < 5 THEN Return(st, Panic)
         ELSE IF st.drug = None
         THEN IF Prefix(line, 4) = T4("2", "0", "1")
              THEN LET set(s, v) == [s EXCEPT !.drug = Some(v)]
                   IN  Bind(st, DrugRecord_from_str(line), set)
              ELSE Return(st, Err("GotUnexpectedRecordLine", line))
         ELSE IF Prefix(line, 4) = T4("2", "8", "1")
              THEN LET push(s, v) == [s EXCEPT !.drug_supplementary = Append(@, v)]
                   IN  Bind(st, DrugSupplementaryRecord_from_str(line), push)
              ELSE IF Prefix(line, 4) = T4("2", "9", "1")
              THEN LET push(s, v) == [s EXCEPT !.drug_notice = Append(@, v)]
                   IN  Bind(st, DrugNoticeRecord_from_str(line), push)
              ELSE Return(st, Err("GotUnexpectedRecordLine", line))
    ELSE IF line = <<>> THEN st
    ELSE Return(st, Err("GotUnexpectedRecordLine", line))

RECURSIVE DrugBlock_loop(_, _, _)
DrugBlock_loop(ls, i, st) ==
    IF i > Len(ls) \/ st.ret # <<>> THEN st
    ELSE DrugBlock_loop(ls, i + 1, DrugBlock_step(st, ls[i]))

\* after the loop: st holds the locals the loop has left
DrugBlock_end(st) ==
    IF st.ret # <<>> THEN st.ret[1]
    ELSE IF st.drug # None
    THEN Ok([drug |-> st.drug[1], drug_supplementary |-> st.drug_supplementary,
             drug_notice |-> st.drug_notice])
    ELSE Err("MissingRequiredRecord", <<"DrugRecord is required.">>)

DrugBlock_from_str(s) == DrugBlock_end(DrugBlock_loop(str_lines(s), 1, DrugBlock_init))

\* ---- RpBlock ----
RpBlock_to_code(b) ==
    Join([i \in 1..Len(b.drugs) |-> DrugBlock_to_code(b.drugs[i])]
           \o <<UsageRecord_to_code(b.usage)>>
           \o [i \in 1..Len(b.usage_supplementary) |->
                  UsageSupplementaryRecord_to_code(b.usage_supplementary[i])]
           \o [i \in 1..Len(b.rp_notice) |-> RpNoticeRecord_to_code(b.rp_notice[i])],
         CRLF)

RpBlock_init ==
    [drug_blocks |-> <<>>, temp_drug_block_string |-> <<>>, usage |-> None,
     usage_supplementary |-> <<>>, rp_notice |-> <<>>, ret |-> <<>>]

\* The 301 branch: the pending DrugBlock lines are parsed (flush is the
\* result) and pushed, then the UsageRecord is parsed and stored.
RpBlock_usage(st, line, flush) ==
    IF ~flush.ok THEN Return(st, flush)
    ELSE LET set(s, v) == [s EXCEPT !.usage = Some(v)]
         IN  Bind(IF Len(st.temp_drug_block_string) > 0
                  THEN [st EXCEPT !.drug_blocks = Append(@, Val(flush))]
                  ELSE st,
                  UsageRecord_from_str(line), set)

RpBlock_step(st, line) ==
    IF Len(line) >= 4
    THEN IF Len(line) < 5 THEN Return(st, Panic)
         ELSE IF st.usage = None
         THEN IF Prefix(line, 4) = T4("2", "0", "1")
              THEN IF Len(st.temp_drug_block_string) > 0
                   THEN LET next(s, v) == [s EXCEPT !.drug_blocks = Append(@, v),
                                                    !.temp_drug_block_string = <<line>>]
                        IN  Bind(st, DrugBlock_from_str(Join(st.temp_drug_block_string, CRLF)),
                                 next)
                   ELSE [st EXCEPT !.temp_drug_block_string = Append(@, line)]
              ELSE IF Prefix(line, 4) = T4("2", "8", "1") \/ Prefix(line, 4) = T4("2", "9", "1")
              THEN IF Len(st.temp_drug_block_string) = 0
                   THEN Return(st, Err("GotUnexpectedRecordLine", line))
                   ELSE [st EXCEPT !.temp_drug_block_string = Append(@, line)]
              ELSE IF Prefix(line, 4) = T4("3", "0", "1")
              THEN RpBlock_usage(st, line,
                                 IF Len(st.temp_drug_block_string) > 0
                                 THEN DrugBlock_from_str(Join(st.temp_drug_block_string, CRLF))
                                 ELSE IF Len(st.drug_blocks) = 0
                                 THEN Err("GotUnexpectedRecordLine", line)
                                 ELSE Ok(<<>>))
              ELSE Return(st, Err("GotUnexpectedRecordLine", line))
         ELSE IF Prefix(line, 4) = T4("3", "1", "1")
              THEN LET push(s, v) == [s EXCEPT !.usage_supplementary = Append(@, v)]
                   IN  Bind(st, UsageSupplementaryRecord_from_str(line), push)
              ELSE IF Prefix(line, 4) = T4("3", "9", "1")
              THEN LET push(s, v) == [s EXCEPT !.rp_notice = Append(@, v)]
                   IN  Bind(st, RpNoticeRecord_from_str(line), push)
              ELSE Return(st, Err("GotUnexpectedRecordLine", line))
    ELSE IF line = <<>> THEN st
    ELSE Return(st, Err("GotUnexpectedRecordLine", line))

RECURSIVE RpBlock_loop(_, _, _)
RpBlock_loop(ls, i, st) ==
    IF i > Len(ls) \/ st.ret # <<>> THEN st
    ELSE RpBlock_loop(ls, i + 1, RpBlock_step(st, ls[i]))

\* The end check with one error for both missing parts.
RpBlock_end_unexpected(st) ==
    IF st.ret # <<>> THEN st.ret[1]
    ELSE IF Len(st.drug_blocks) > 0 /\ st.usage # None
    THEN Ok([drugs |-> st.drug_blocks, usage |-> st.usage[1],
             usage_supplementary |-> st.usage_supplementary,
             rp_notice |-> st.rp_notice])
    ELSE Err("GotUnexpectedRecordLine", <<"DrugBlock is required.">>)

\* after the loop: st holds the locals the loop has left
RpBlock_end(st) ==
    IF st.ret # <<>> THEN st.ret[1]
    ELSE IF Len(st.drug_blocks) > 0 /\ st.usage # None
    THEN Ok([drugs |-> st.drug_blocks, usage |-> st.usage[1],
             usage_supplementary |-> st.usage_supplementary,
             rp_notice |-> st.rp_notice])
    ELSE IF Len(st.drug_blocks) = 0
    THEN Err("MissingRequiredRecord", <<"DrugBlock is required.">>)
    ELSE Err("MissingRequiredRecord", <<"UsageRecord is required.">>)

RpBlock_from_str(s) == RpBlock_end(RpBlock_loop(str_lines(s), 1, RpBlock_init))

\* ---- PrescriptionBlock ----
PrescriptionBlock_to_code(b) ==
    Join((IF b.physician # None THEN <<PhysicianRecord_to_code(b.physician[1])>> ELSE <<>>)
           \o [i \in 1..Len(b.rps) |-> RpBlock_to_code(b.rps[i])],
         CRLF)

PrescriptionBlock_init ==
    [physician |-> None, rps |-> <<>>, temp_rp_block_string |-> <<>>,
     flag_usage_exists |-> FALSE, ret |-> <<>>]

\* The loop body with a Physician(55) line taken wherever the first one stands.
PrescriptionBlock_step_anywhere(st, line) ==
    IF Len(line) >= 4
    THEN IF Len(line) < 5 THEN Return(st, Panic)
         ELSE IF Prefix(line, 3) = T3("5", "5")
         THEN IF st.physician # None
              THEN Return(st, Err("GotUnexpectedRecordLine", line))
              ELSE LET set(s, v) == [s EXCEPT !.physician = Some(v)]
                   IN  Bind(st, PhysicianRecord_from_str(line), set)
         ELSE IF Prefix(line, 4) = T4("2", "0", "1")
         THEN IF st.flag_usage_exists /\ Len(st.temp_rp_block_string) > 0
              THEN LET next(s, v) == [s EXCEPT !.rps = Append(@, v),
                                               !.temp_rp_block_string = <<line>>,
                                               !.flag_usage_exists = FALSE]
                   IN  Bind(st, RpBlock_from_str(Join(st.temp_rp_block_string, CRLF)), next)
              ELSE [st EXCEPT !.temp_rp_block_string = Append(@, line)]
         ELSE IF Prefix(line, 4) = T4("3", "0", "1")
         THEN [st EXCEPT !.flag_usage_exists = TRUE,
                         !.temp_rp_block_string = Append(@, line)]
         ELSE IF \/ Prefix(line, 4) = T4("2", "8", "1") \/ Prefix(line, 4) = T4("2", "9", "1")
                 \/ Prefix(line, 4) = T4("3", "1", "1") \/ Prefix(line, 4) = T4("3", "9", "1")
         THEN [st EXCEPT !.temp_rp_block_string = Append(@, line)]
         ELSE Return(st, Err("GotUnexpectedRecordLine", line))
    ELSE IF line = <<>> THEN st
    ELSE Return(st, Err("GotUnexpectedRecordLine", line))

PrescriptionBlock_step(st, line) ==
    IF Len(line) >= 4
    THEN IF Len(line) < 5 THEN Return(st, Panic)
         ELSE IF Prefix(line, 3) = T3("5", "5")
         THEN IF st.physician # None
              THEN Return(st, Err("GotUnexpectedRecordLine", line))
              ELSE IF Len(st.rps) > 0 \/ Len(st.temp_rp_block_string) > 0
              THEN Return(st, Err("GotUnexpectedRecordLine",
                                  <<"PhysicianRecord must exist before RpBlock">>))
              ELSE LET set(s, v) == [s EXCEPT !.physician = Some(v)]
                   IN  Bind(st, PhysicianRecord_from_str(line), set)
         ELSE IF Prefix(line, 4) = T4("2", "0", "1")
         THEN IF st.flag_usage_exists /\ Len(st.temp_rp_block_string) > 0
              THEN LET next(s, v) == [s EXCEPT !.rps = Append(@, v),
                                               !.temp_rp_block_string = <<line>>,
                                               !.flag_usage_exists = FALSE]
                   IN  Bind(st, RpBlock_from_str(Join(st.temp_rp_block_string, CRLF)), next)
              ELSE [st EXCEPT !.temp_rp_block_string = Append(@, line)]
         ELSE IF Prefix(line, 4) = T4("3", "0", "1")
         THEN [st EXCEPT !.flag_usage_exists = TRUE,
                         !.temp_rp_block_string = Append(@, line)]
         ELSE IF \/ Prefix(line, 4) = T4("2", "8", "1") \/ Prefix(line, 4) = T4("2", "9", "1")
                 \/ Prefix(line, 4) = T4("3", "1", "1") \/ Prefix(line, 4) = T4("3", "9", "1")
         THEN [st EXCEPT !.temp_rp_block_string = Append(@, line)]
         ELSE Return(st, Err("GotUnexpectedRecordLine", line))
    ELSE IF line = <<>> THEN st
    ELSE Return(st, Err("GotUnexpectedRecordLine", line))

RECURSIVE PrescriptionBlock_loop(_, _, _)
PrescriptionBlock_loop(ls, i, st) ==
    IF i > Len(ls) \/ st.ret # <<>> THEN st
    ELSE PrescriptionBlock_loop(ls, i + 1, PrescriptionBlock_step(st, ls[i]))

\* after the loop: st holds the locals the loop has left, last is the result
\* of parsing the pending RpBlock lines
PrescriptionBlock_end(st, last) ==
    IF st.ret # <<>> THEN st.ret[1]
    ELSE IF ~last.ok THEN last
    ELSE Ok([physician |-> st.physician,
             rps |-> IF Len(st.temp_rp_block_string) > 0
                     THEN Append(st.rps, Val(last)) ELSE st.rps])

PrescriptionBlock_last(st) ==
    PrescriptionBlock_end(st, IF Len(st.temp_rp_block_string) > 0
                              THEN RpBlock_from_str(Join(st.temp_rp_block_string, CRLF))
                              ELSE Ok(<<>>))

PrescriptionBlock_from_str(s) ==
    PrescriptionBlock_last(PrescriptionBlock_loop(str_lines(s), 1, PrescriptionBlock_init))

\* ---- DispensingInformationBlock ----
DispensingInformationBlock_to_code(b) ==
    Join(<<DateRecord_to_code(b.date), PharmacyRecord_to_code(b.pharmacy)>>
           \o (IF b.pharmacist # None
               THEN <<PharmacistRecord_to_code(b.pharmacist[1])>> ELSE <<>>)
           \o (IF b.medical_institute # None
               THEN <<MedicalInstitutionRecord_to_code(b.medical_institute[1])>> ELSE <<>>)
           \o [i \in 1..Len(b.prescriptions) |-> PrescriptionBlock_to_code(b.prescriptions[i])]
           \o (IF b.notice # None THEN <<NoticeRecord_to_code(b.notice[1])>> ELSE <<>>)
           \o (IF b.information_provision # None
               THEN <<InformationProvisionRecord_to_code(b.information_provision[1])>>
               ELSE <<>>)
           \o (IF b.note # None THEN <<NoteRecord_to_code(b.note[1])>> ELSE <<>>)
           \o (IF b.from_patient # None
               THEN <<FromPatientRecord_to_code(b.from_patient[1])>> ELSE <<>>),
         CRLF)

DispensingInformationBlock_init ==
    [date |-> None, pharmacy |-> None, pharmacist |-> None, medical_institute |-> None,
     prescriptions |-> <<>>, temp_prescription_block_string |-> <<>>,
     notice |-> None, information_provision |-> None, note |-> None,
     from_patient |-> None, cur_num |-> 0, ret |-> <<>>]

\* The branch of a singleton record: `if cur_num < num { if field.is_none()
\* { field = Some(line.parse()?); cur_num = num } else { Err } } else { Err }`
DispensingSingleton(st, line, num, isNone, r, set(_, _)) ==
    IF st.cur_num < num
    THEN IF isNone
         THEN LET store(s, v) == [set(s, Some(v)) EXCEPT !.cur_num = num]
              IN  Bind(st, r, store)
         ELSE Return(st, Err("GotUnexpectedRecordLine", line))
    ELSE Return(st, Err("GotUnexpectedRecordLine", line))

DispensingInformationBlock_step(st, line) ==
    IF Len(line) >= 4
    THEN IF Len(line) < 5 THEN Return(st, Panic)
         ELSE IF Prefix(line, 2) = T2("5")
         THEN IF st.date = None
              THEN LET set(s, v) == [s EXCEPT !.date = Some(v), !.cur_num = 5]
                   IN  Bind(st, DateRecord_from_str(line), set)
              ELSE Return(st, Err("GotUnexpectedRecordLine", line))
         ELSE IF Prefix(line, 3) = T3("1", "1")
         THEN LET set(s, v) == [s EXCEPT !.pharmacy = v]
              IN  DispensingSingleton(st, line, 11, st.pharmacy = None,
                                      PharmacyRecord_from_str(line), set)
         ELSE IF Prefix(line, 3) = T3("1", "5")
         THEN LET set(s, v) == [s EXCEPT !.pharmacist = v]
              IN  DispensingSingleton(st, line, 15, st.pharmacist = None,
                                      PharmacistRecord_from_str(line), set)
         ELSE IF Prefix(line, 3) = T3("5", "1")
         THEN LET set(s, v) == [s EXCEPT !.medical_institute = v]
              IN  DispensingSingleton(st, line, 51, st.medical_institute = None,
                                      MedicalInstitutionRecord_from_str(line), set)
         ELSE IF \/ Prefix(line, 3) = T3("5", "5") \/ Prefix(line, 4) = T4("2", "0", "1")
                 \/ Prefix(line, 4) = T4("2", "8", "1") \/ Prefix(line, 4) = T4("2", "9", "1")
                 \/ Prefix(line, 4) = T4("3", "0", "1") \/ Prefix(line, 4) = T4("3", "1", "1")
                 \/ Prefix(line, 4) = T4("3", "9", "1")
         THEN IF st.cur_num <= 55
              THEN IF Prefix(line, 3) = T3("5", "5")
                      /\ Len(st.temp_prescription_block_string) > 0
                   THEN LET next(s, v) == [s EXCEPT !.prescriptions = Append(@, v),
                                                    !.temp_prescription_block_string = <<line>>,
                                                    !.cur_num = 55]
                        IN  Bind(st, PrescriptionBlock_from_str(
                                         Join(st.temp_prescription_block_string, CRLF)), next)
                   ELSE [st EXCEPT !.temp_prescription_block_string = Append(@, line),
                                   !.cur_num = 55]
              ELSE Return(st, Err("GotUnexpectedRecordLine", line))
         ELSE IF Prefix(line, 4) = T4("4", "0", "1")
         THEN LET set(s, v) == [s EXCEPT !.notice = v]
              IN  DispensingSingleton(st, line, 401, st.notice = None,
                                      NoticeRecord_from_str(line), set)
         ELSE IF Prefix(line, 4) = T4("4", "1", "1")
         THEN LET set(s, v) == [s EXCEPT !.information_provision = v]
              IN  DispensingSingleton(st, line, 411, st.information_provision = None,
                                      InformationProvisionRecord_from_str(line), set)
         ELSE IF Prefix(line, 4) = T4("5", "0", "1")
         THEN LET set(s, v) == [s EXCEPT !.note = v]
              IN  DispensingSingleton(st, line, 501, st.note = None,
                                      NoteRecord_from_str(line), set)
         ELSE IF Prefix(line, 4) = T4("6", "0", "1")
         THEN LET set(s, v) == [s EXCEPT !.from_patient = v]
              IN  DispensingSingleton(st, line, 601, st.from_patient = None,
                                      FromPatientRecord_from_str(line), set)
         ELSE Return(st, Err("GotUnexpectedRecordLine", line))
    ELSE IF line = <<>> THEN st
    ELSE Return(st, Err("GotUnexpectedRecordLine", line))

RECURSIVE DispensingInformationBlock_loop(_, _, _)
DispensingInformationBlock_loop(ls, i, st) ==
    IF i > Len(ls) \/ st.ret # <<>> THEN st
    ELSE DispensingInformationBlock_loop(ls, i + 1, DispensingInformationBlock_step(st, ls[i]))

\* after the loop: st holds the locals the loop has left, last is the result
\* of parsing the pending PrescriptionBlock lines
DispensingInformationBlock_end(st, last) ==
    IF st.ret # <<>> THEN st.ret[1]
    ELSE IF ~last.ok THEN last
    ELSE IF st.date # None /\ st.pharmacy # None
    THEN Ok([date |-> st.date[1], pharmacy |-> st.pharmacy[1],
             pharmacist |-> st.pharmacist, medical_institute |-> st.medical_institute,
             prescriptions |-> IF Len(st.temp_prescription_block_string) > 0
                               THEN Append(st.prescriptions, Val(last))
                               ELSE st.prescriptions,
             notice |-> st.notice, information_provision |-> st.information_provision,
             note |-> st.note, from_patient |-> st.from_patient])
    ELSE IF st.date = None
    THEN Err("MissingRequiredRecord", <<"DateRecord is required.">>)
    ELSE Err("MissingRequiredRecord", <<"PharmacyRecord is required.">>)

DispensingInformationBlock_last(st) ==
    DispensingInformationBlock_end(st,
        IF Len(st.temp_prescription_block_string) > 0
        THEN PrescriptionBlock_from_str(Join(st.temp_prescription_block_string, CRLF))
        ELSE Ok(<<>>))

DispensingInformationBlock_from_str(s) ==
    DispensingInformationBlock_last(
        DispensingInformationBlock_loop(str_lines(s), 1, DispensingInformationBlock_init))

\* ---- MedicineNotebook ----
MedicineNotebook_to_code(b) ==
    Join(<<VersionRecord_to_code(b.version), PatientRecord_to_code(b.patient)>>
           \o [i \in 1..Len(b.special_patient_notes) |->
                  SpecialPatientNoteRecord_to_code(b.special_patient_notes[i])]
           \o [i \in 1..Len(b.otc_drugs) |-> OtcDrugRecord_to_code(b.otc_drugs[i])]
           \o [i \in 1..Len(b.memos) |-> MemoRecord_to_code(b.memos[i])]
           \o [i \in 1..Len(b.dispensing_information) |->
                  DispensingInformationBlock_to_code(b.dispensing_information[i])]
           \o [i \in 1..Len(b.family_pharmacist) |->
                  FamilyPharmacistRecord_to_code(b.family_pharmacist[i])],
         CRLF)

MedicineNotebook_init ==
    [version |-> None, patient |-> None, special_patient_notes |-> <<>>,
     otc_drugs |-> <<>>, memos |-> <<>>, dispensing_information |-> <<>>,
     temp_disp_info_block_string |-> <<>>, family_pharmacist |-> <<>>,
     cur_num |-> 0, ret |-> <<>>]

\* A repeatable record: `if cur_num <= num { field.push(line.parse()?);
\* cur_num = num } else { Err }`
NotebookRepeated(st, line, num, r, push(_, _)) ==
    IF st.cur_num <= num
    THEN LET store(s, v) == [push(s, v) EXCEPT !.cur_num = num]
         IN  Bind(st, r, store)
    ELSE Return(st, Err("GotUnexpectedRecordLine", line))

MedicineNotebook_step(st, line) ==
    IF Len(line) >= 4
    THEN IF Len(line) < 8 THEN Return(st, Panic)
         ELSE IF Prefix(line, 7) = JAHISTC
         THEN IF st.cur_num = 0
              THEN IF st.version = None
                   THEN LET set(s, v) == [s EXCEPT !.version = Some(v), !.cur_num = 0]
                        IN  Bind(st, VersionRecord_from_str(line), set)
                   ELSE Return(st, Err("GotUnexpectedRecordLine", line))
              ELSE Return(st, Err("GotUnexpectedRecordLine", line))
         ELSE IF Prefix(line, 2) = T2("1")
         THEN IF st.cur_num < 1
              THEN IF st.patient = None
                   THEN LET set(s, v) == [s EXCEPT !.patient = Some(v), !.cur_num = 1]
                        IN  Bind(st, PatientRecord_from_str(line), set)
                   ELSE Return(st, Err("GotUnexpectedRecordLine", line))
              ELSE Return(st, Err("GotUnexpectedRecordLine", line))
         ELSE IF Prefix(line, 2) = T2("2")
         THEN LET push(s, v) == [s EXCEPT !.special_patient_notes = Append(@, v)]
              IN  NotebookRepeated(st, line, 2, SpecialPatientNoteRecord_from_str(line), push)
         ELSE IF Prefix(line, 2) = T2("3")
         THEN LET push(s, v) == [s EXCEPT !.otc_drugs = Append(@, v)]
              IN  NotebookRepeated(st, line, 3, OtcDrugRecord_from_str(line), push)
         ELSE IF Prefix(line, 2) = T2("4")
         THEN LET push(s, v) == [s EXCEPT !.memos = Append(@, v)]
              IN  NotebookRepeated(st, line, 4, MemoRecord_from_str(line), push)
         ELSE IF \/ Prefix(line, 2) = T2("5") \/ Prefix(line, 3) = T3("1", "1")
                 \/ Prefix(line, 3) = T3("1", "5") \/ Prefix(line, 3) = T3("5", "1")
                 \/ Prefix(line, 3) = T3("5", "5") \/ Prefix(line, 4) = T4("2", "0", "1")
                 \/ Prefix(line, 4) = T4("2", "8", "1") \/ Prefix(line, 4) = T4("2", "9", "1")
                 \/ Prefix(line, 4) = T4("3", "0", "1") \/ Prefix(line, 4) = T4("3", "1", "1")
                 \/ Prefix(line, 4) = T4("3", "9", "1") \/ Prefix(line, 4) = T4("4", "0", "1")
                 \/ Prefix(line, 4) = T4("4", "1", "1") \/ Prefix(line, 4) = T4("5", "0", "1")
                 \/ Prefix(line, 4) = T4("6", "0", "1")
         THEN IF st.cur_num <= 5
              THEN IF Prefix(line, 2) = T2("5") /\ Len(st.temp_disp_info_block_string) > 0
                   THEN LET next(s, v) == [s EXCEPT !.dispensing_information = Append(@, v),
                                                    !.temp_disp_info_block_string = <<line>>,
                                                    !.cur_num = 5]
                        IN  Bind(st, DispensingInformationBlock_from_str(
                                         Join(st.temp_disp_info_block_string, CRLF)), next)
                   ELSE [st EXCEPT !.temp_disp_info_block_string = Append(@, line),
                                   !.cur_num = 5]
              ELSE Return(st, Err("GotUnexpectedRecordLine", line))
         ELSE IF Prefix(line, 4) = T4("7", "0", "1")
         THEN LET push(s, v) == [s EXCEPT !.family_pharmacist = Append(@, v)]
              IN  NotebookRepeated(st, line, 701, FamilyPharmacistRecord_from_str(line), push)
         ELSE Return(st, Err("GotUnexpectedRecordLine", line))
    ELSE IF line = <<>> THEN st
    ELSE Return(st, Err("GotUnexpectedRecordLine", line))

\* The for loop with `break` in the place of `continue`: an empty line ends it.
RECURSIVE MedicineNotebook_loop_break(_, _, _)
MedicineNotebook_loop_break(ls, i, st) ==
    IF i > Len(ls) \/ st.ret # <<>> THEN st
    ELSE IF ls[i] = <<>> THEN st
    ELSE MedicineNotebook_loop_break(ls, i + 1, MedicineNotebook_step(st, ls[i]))

RECURSIVE MedicineNotebook_loop(_, _, _)
MedicineNotebook_loop(ls, i, st) ==
    IF i > Len(ls) \/ st.ret # <<>> THEN st
    ELSE MedicineNotebook_loop(ls, i + 1, MedicineNotebook_step(st, ls[i]))

\* after the loop: st holds the locals the loop has left, last is the result
\* of parsing the pending DispensingInformationBlock lines
\* The end of from_str without the push of the pending dispensing lines.
MedicineNotebook_end_no_flush(st, last) ==
    IF st.ret # <<>> THEN st.ret[1]
    ELSE IF ~last.ok THEN last
    ELSE IF st.version # None /\ st.patient # None
    THEN Ok([version |-> st.version[1], patient |-> st.patient[1],
             special_patient_notes |-> st.special_patient_notes,
             otc_drugs |-> st.otc_drugs, memos |-> st.memos,
             dispensing_information |-> st.dispensing_information,
             family_pharmacist |-> st.family_pharmacist])
    ELSE IF st.version # None
    THEN Err("MissingRequiredRecord", <<"VersionRecord is required.">>)
    ELSE Err("MissingRequiredRecord", <<"PatientRecord is required.">>)

MedicineNotebook_end(st, last) ==
    IF st.ret # <<>> THEN st.ret[1]
    ELSE IF ~last.ok THEN last
    ELSE IF st.version # None /\ st.patient # None
    THEN Ok([version |-> st.version[1], patient |-> st.patient[1],
             special_patient_notes |-> st.special_patient_notes,
             otc_drugs |-> st.otc_drugs, memos |-> st.memos,
             dispensing_information |->
                 IF Len(st.temp_disp_info_block_string) > 0
                 THEN Append(st.dispensing_information, Val(last))
                 ELSE st.dispensing_information,
             family_pharmacist |-> st.family_pharmacist])
    ELSE IF st.version # None
    THEN Err("MissingRequiredRecord", <<"VersionRecord is required.">>)
    ELSE Err("MissingRequiredRecord", <<"PatientRecord is required.">>)

MedicineNotebook_last(st) ==
    MedicineNotebook_end(st,
        IF Len(st.temp_disp_info_block_string) > 0
        THEN DispensingInformationBlock_from_str(Join(st.temp_disp_info_block_string, CRLF))
        ELSE Ok(<<>>))

MedicineNotebook_from_str(s) ==
    MedicineNotebook_last(MedicineNotebook_loop(str_lines(s), 1, MedicineNotebook_init))

(***************************************************************************)
(* The inputs: record lines and date strings, written out character by     *)
(* character.                                                              *)
(***************************************************************************)
\* Version: "JAHISTC06,1"
L_Version == <<"J", "A", "H", "I", "S", "T", "C", "0", "6", ",", "1">>
\* Patient(1): "1,a,1,19800101,,,,,,,"
L_Patient == <<"1", ",", "a", ",", "1", ",", "1", "9", "8", "0", "0", "1", "0", "1", ",", ",",
    ",", ",", ",", ",", ",">>
\* SpecialPatientNote(2): "2,1,abcd,1"
L_Note2 == <<"2", ",", "1", ",", "a", "b", "c", "d", ",", "1">>
\* SpecialPatientNote(2) with empty content: 6 characters: "2,1,,1"
L_Note2Short == <<"2", ",", "1", ",", ",", "1">>
\* OtcDrug(3): "3,abc,,,1"
L_Otc3 == <<"3", ",", "a", "b", "c", ",", ",", ",", "1">>
\* OtcDrug(3): 7 characters: "3,a,,,1"
L_Otc3Short == <<"3", ",", "a", ",", ",", ",", "1">>
\* Memo(4): "4,memo,,1"
L_Memo4 == <<"4", ",", "m", "e", "m", "o", ",", ",", "1">>
\* Date(5): "5,R010501,1"
L_Date5 == <<"5", ",", "R", "0", "1", "0", "5", "0", "1", ",", "1">>
\* another Date(5): "5,20200102,2"
L_Date5b == <<"5", ",", "2", "0", "2", "0", "0", "1", "0", "2", ",", "2">>
\* Pharmacy(11): "11,a,13,4,,,,,1"
L_Pharmacy11 == <<"1", "1", ",", "a", ",", "1", "3", ",", "4", ",", ",", ",", ",", ",", "1">>
\* Pharmacist(15): "15,a,,1"
L_Pharmacist15 == <<"1", "5", ",", "a", ",", ",", "1">>
\* MedicalInstitution(51): "51,a,,,,1"
L_Institution51 == <<"5", "1", ",", "a", ",", ",", ",", ",", "1">>
\* Physician(55): "55,a,,1"
L_Physician55 == <<"5", "5", ",", "a", ",", ",", "1">>
\* Drug(201): "201,1,x,1,t,1,,1"
L_Drug201 == <<"2", "0", "1", ",", "1", ",", "x", ",", "1", ",", "t", ",", "1", ",", ",", "1">>
\* Drug(201) whose rp_number is written 01: "201,01,x,1,t,1,,1"
L_Drug201Zero == <<"2", "0", "1", ",", "0", "1", ",", "x", ",", "1", ",", "t", ",", "1", ",",
    ",", "1">>
\* DrugSupplementary(281): "281,1,s,1"
L_DrugSupp281 == <<"2", "8", "1", ",", "1", ",", "s", ",", "1">>
\* DrugNotice(291): "291,1,n,1"
L_DrugNotice291 == <<"2", "9", "1", ",", "1", ",", "n", ",", "1">>
\* Usage(301): "301,1,u,1,k,1,,,1"
L_Usage301 == <<"3", "0", "1", ",", "1", ",", "u", ",", "1", ",", "k", ",", "1", ",", ",", ",",
    "1">>
\* UsageSupplementary(311): "311,1,s,1"
L_UsageSupp311 == <<"3", "1", "1", ",", "1", ",", "s", ",", "1">>
\* RpNotice(391): "391,1,n,1"
L_RpNotice391 == <<"3", "9", "1", ",", "1", ",", "n", ",", "1">>
\* Notice(401) with empty content: 6 characters: "401,,1"
L_Notice401 == <<"4", "0", "1", ",", ",", "1">>
\* Notice(401): "401,abcd,1"
L_Notice401Long == <<"4", "0", "1", ",", "a", "b", "c", "d", ",", "1">>
\* InformationProvision(411): "411,a,30,1"
L_Info411 == <<"4", "1", "1", ",", "a", ",", "3", "0", ",", "1">>
\* Note(501): "501,a,1"
L_Note501 == <<"5", "0", "1", ",", "a", ",", "1">>
\* FromPatient(601) with content and date: "601,abcd,20200101"
L_From601 == <<"6", "0", "1", ",", "a", "b", "c", "d", ",", "2", "0", "2", "0", "0", "1", "0",
    "1">>
\* FromPatient(601) with content and no date: "601,abcd,"
L_From601NoDate == <<"6", "0", "1", ",", "a", "b", "c", "d", ",">>
\* FromPatient(601) with a date and no content: "601,,20200101"
L_From601NoContent == <<"6", "0", "1", ",", ",", "2", "0", "2", "0", "0", "1", "0", "1">>
\* FromPatient(601), both fields empty: 5 characters: "601,,"
L_From601Empty == <<"6", "0", "1", ",", ",">>
\* FamilyPharmacist(701): "701,a,b,c,,,1"
L_Family701 == <<"7", "0", "1", ",", "a", ",", "b", ",", "c", ",", ",", ",", "1">>
\* no known tag, 8 characters: "999,abcd"
L_Unknown8 == <<"9", "9", "9", ",", "a", "b", "c", "d">>
\* no known tag, 5 characters: "999,a"
L_Unknown5 == <<"9", "9", "9", ",", "a">>
\* no known tag, 4 characters: "999,"
L_Unknown4 == <<"9", "9", "9", ",">>
\* no known tag, 2 characters: "9,"
L_Unknown2 == <<"9", ",">>
\* the empty line: ""
L_Blank == <<>>
\* a date of 8 digits: "20200101"
D_Seireki8 == <<"2", "0", "2", "0", "0", "1", "0", "1">>
\* a date of an era letter and 6 digits: "R010501"
D_Wareki7 == <<"R", "0", "1", "0", "5", "0", "1">>
\* a string of 6 digits: "202001"
D_Digits6 == <<"2", "0", "2", "0", "0", "1">>
\* a date of 8 digits whose last digit is U+FF11: "2020010#"
D_Fullwidth == <<"2", "0", "2", "0", "0", "1", "0", "FW1">>
\* a date of 8 digits with month 13: "20201301"
D_Month13 == <<"2", "0", "2", "0", "1", "3", "0", "1">>
\* no date: "abc"
D_Letters == <<"a", "b", "c">>
\* a date of 8 digits with day 30 of February: "20200230"
D_Feb30 == <<"2", "0", "2", "0", "0", "2", "3", "0">>
\* a date of 8 digits with day 00: "20200100"
D_Day00 == <<"2", "0", "2", "0", "0", "1", "0", "0">>
\* a string of 7 digits: "2020010"
D_Digits7 == <<"2", "0", "2", "0", "0", "1", "0">>
\* a string of 9 digits: "202001011"
D_Digits9 == <<"2", "0", "2", "0", "0", "1", "0", "1", "1">>
\* an era letter and 6 digits with day 30 of February: "R020230"
D_WarekiFeb30 == <<"R", "0", "2", "0", "2", "3", "0">>
\* an era letter and 6 digits with month 13: "H011301"
D_WarekiMonth13 == <<"H", "0", "1", "1", "3", "0", "1">>
\* a lowercase letter and 6 digits: "r010501"
D_Lowercase == <<"r", "0", "1", "0", "5", "0", "1">>
\* a letter that names no era and 6 digits: "X010501"
D_OtherLetter == <<"X", "0", "1", "0", "5", "0", "1">>
\* an era letter and 7 digits: "R0105011"
D_Wareki8 == <<"R", "0", "1", "0", "5", "0", "1", "1">>
\* an era letter and 5 digits: "R01050"
D_Wareki6 == <<"R", "0", "1", "0", "5", "0">>
\* the last day of Heisei: "H310430"
D_Heisei == <<"H", "3", "1", "0", "4", "3", "0">>
\* the first day the Meiji form is given for: "M060101"
D_Meiji == <<"M", "0", "6", "0", "1", "0", "1">>
\* the empty string: ""
D_Empty == <<>>

\* Record lines with a field that is no value of its type, with a wrong
\* number of fields, or with a wrong record number.
\* Drug(201) with 7 fields: "201,1,x,1,t,1,1"
R_DrugShort == <<"2", "0", "1", ",", "1", ",", "x", ",", "1", ",", "t", ",", "1", ",", "1">>
\* the fields of Drug(201) after the number 202: "202,1,x,1,t,1,,1"
R_DrugWrongTag == <<"2", "0", "2", ",", "1", ",", "x", ",", "1", ",", "t", ",", "1", ",", ",", "1">>
\* Drug(201): rp_number above u32::MAX, drug_code_type 5, created_by 3: "201,99999999999,x,1,t,5,,3"
R_DrugRpOverflow == <<"2", "0", "1", ",", "9", "9", "9", "9", "9", "9", "9", "9", "9", "9", "9", ",",
    "x", ",", "1", ",", "t", ",", "5", ",", ",", "3">>
\* Drug(201): rp_number is U+FF11: "201,#,x,1,t,1,,1"   (# is U+FF11)
R_DrugFullwidthRp == <<"2", "0", "1", ",", "FW1", ",", "x", ",", "1", ",", "t", ",", "1", ",", ",",
    "1">>
\* Drug(201): drug_code_type 5, created_by 3: "201,1,x,1,t,5,,3"
R_DrugBadType == <<"2", "0", "1", ",", "1", ",", "x", ",", "1", ",", "t", ",", "5", ",", ",", "3">>
\* Drug(201): created_by 3: "201,1,x,1,t,1,,3"
R_DrugBadCreator == <<"2", "0", "1", ",", "1", ",", "x", ",", "1", ",", "t", ",", "1", ",", ",", "3">>
\* Drug(201): drug_code_type empty: "201,1,x,1,t,,,1"
R_DrugNoType == <<"2", "0", "1", ",", "1", ",", "x", ",", "1", ",", "t", ",", ",", ",", "1">>
\* Patient(1): gender 3, day_of_birth with the letter X: "1,a,3,X800101,,,,,,,"
R_PatientBadGender == <<"1", ",", "a", ",", "3", ",", "X", "8", "0", "0", "1", "0", "1", ",", ",", ",",
    ",", ",", ",", ",">>
\* Patient(1): day_of_birth with the letter X: "1,a,1,X800101,,,,,,,"
R_PatientBadDate == <<"1", ",", "a", ",", "1", ",", "X", "8", "0", "0", "1", "0", "1", ",", ",", ",",
    ",", ",", ",", ",">>
\* Patient(1): the last digit of day_of_birth is U+FF11: "1,a,1,1980010#,,,,,,,"   (# is U+FF11)
R_PatientFullwidthDate == <<"1", ",", "a", ",", "1", ",", "1", "9", "8", "0", "0", "1", "0", "FW1", ",",
    ",", ",", ",", ",", ",", ",">>
\* Patient(1): day_of_birth with month 13: "1,a,1,19801301,,,,,,,"
R_PatientMonth13 == <<"1", ",", "a", ",", "1", ",", "1", "9", "8", "0", "1", "3", "0", "1", ",", ",",
    ",", ",", ",", ",", ",">>
\* Date(5): month 13: "5,20201301,1"
R_DateMonth13 == <<"5", ",", "2", "0", "2", "0", "1", "3", "0", "1", ",", "1">>
\* Date(5): day 30 of February of Reiwa 2: "5,R020230,1"
R_DateFeb30 == <<"5", ",", "R", "0", "2", "0", "2", "3", "0", ",", "1">>
\* Date(5): created_by 5: "5,20200101,5"
R_DateBadCreator == <<"5", ",", "2", "0", "2", "0", "0", "1", "0", "1", ",", "5">>
\* FromPatient(601): no content, created_at with the letter X: "601,,X010101"
R_FromBadDate == <<"6", "0", "1", ",", ",", "X", "0", "1", "0", "1", "0", "1">>
\* Version: output_category 3: "JAHISTC06,3"
R_VersionBadCategory == <<"J", "A", "H", "I", "S", "T", "C", "0", "6", ",", "3">>
\* Version with a number of one digit: "JAHISTC6,1"
R_VersionOneDigit == <<"J", "A", "H", "I", "S", "T", "C", "6", ",", "1">>

\* The well-formed record lines among the inputs.
RecordLines ==
    {L_Version, L_Patient, L_Note2, L_Note2Short, L_Otc3, L_Otc3Short, L_Memo4, L_Date5,
     L_Date5b, L_Pharmacy11, L_Pharmacist15, L_Institution51, L_Physician55, L_Drug201,
     L_Drug201Zero, L_DrugSupp281, L_DrugNotice291, L_Usage301, L_UsageSupp311,
     L_RpNotice391, L_Notice401, L_Notice401Long, L_Info411, L_Note501, L_From601,
     L_From601NoDate, L_From601NoContent, L_From601Empty, L_Family701}

\* The lines handed to the parser of a single record.
BadRecordLines ==
    {R_DrugShort, R_DrugWrongTag, R_DrugRpOverflow, R_DrugFullwidthRp, R_DrugBadType, R_DrugBadCreator,
     R_DrugNoType, R_PatientBadGender, R_PatientBadDate, R_PatientFullwidthDate, R_PatientMonth13,
     R_DateMonth13, R_DateFeb30, R_DateBadCreator, R_FromBadDate, R_VersionBadCategory, R_VersionOneDigit}

(***************************************************************************)
(* Single values: the record types, the enumerations, and the operations   *)
(* of each by the name of the type.                                        *)
(***************************************************************************)
\* The record types.
Records ==
    {"VersionRecord", "PatientRecord", "SpecialPatientNoteRecord", "OtcDrugRecord",
     "MemoRecord", "DateRecord", "PharmacyRecord", "PharmacistRecord",
     "MedicalInstitutionRecord", "PhysicianRecord", "DrugRecord",
     "DrugSupplementaryRecord", "DrugNoticeRecord", "UsageRecord",
     "UsageSupplementaryRecord", "RpNoticeRecord", "NoticeRecord",
     "InformationProvisionRecord", "NoteRecord", "FromPatientRecord",
     "FamilyPharmacistRecord"}

\* The enumerations of the code tables.
Enums ==
    {"Prefecture", "FeeTable", "DosageForm", "RecordCreator", "OutputCategory",
     "Gender", "SpecialPatientNoteCategory", "DrugCodeType", "UsageCodeType",
     "ProvidedInformationType"}

\* impl Default for each record type: <T as Default>::default()
Default(t) ==
    CASE t = "VersionRecord" ->    \* lines 979-983
             [number |-> 6, output_category |-> "ToPatient"]
      [] t = "PatientRecord" ->    \* lines 1064-1079
             [name |-> <<>>, gender |-> "Male", day_of_birth |-> Seireki(1970, 1, 1),
              zip_code |-> None, address |-> None, telephone |-> None,
              emergency_contact_information |-> None, blood_type |-> None,
              body_weight |-> None, name_in_kana |-> None]
      [] t = "SpecialPatientNoteRecord" ->    \* lines 1146-1154
             [category |-> "Other", content |-> <<>>, created_by |-> "Unknown"]
      [] t = "OtcDrugRecord" ->    \* lines 1217-1226
             [drug_name |-> <<>>, start_date |-> None, end_date |-> None,
              created_by |-> "Unknown"]
      [] t = "MemoRecord" ->    \* lines 1287-1295
             [content |-> <<>>, created_at |-> None, created_by |-> "Unknown"]
      [] t = "DateRecord" ->    \* lines 1348-1355
             [created_at |-> Seireki(1970, 1, 1), created_by |-> "Unknown"]
      [] t = "PharmacyRecord" ->    \* lines 1431-1444
             [name |-> <<>>, prefecture |-> None, fee_table |-> None,
              institution_code |-> None, zip_code |-> None, address |-> None,
              telephone |-> None, created_by |-> "Unknown"]
      [] t = "PharmacistRecord" ->    \* lines 1509-1517
             [name |-> <<>>, contact_information |-> None, created_by |-> "Unknown"]
      [] t = "MedicalInstitutionRecord" ->    \* lines 1584-1594
             [name |-> <<>>, prefecture |-> None, fee_table |-> None,
              institution_code |-> None, created_by |-> "Unknown"]
      [] t = "PhysicianRecord" ->    \* lines 1656-1664
             [name |-> <<>>, specialty |-> None, created_by |-> "Unknown"]
      [] t = "DrugRecord" ->    \* lines 1737-1749
             [rp_number |-> 1, name |-> <<>>, dosage |-> <<>>, unit |-> <<>>,
              drug_code_type |-> "None", drug_code |-> None, created_by |-> "Unknown"]
      [] t = "DrugSupplementaryRecord" ->    \* lines 1812-1820
             [rp_number |-> 1, content |-> <<>>, created_by |-> "Unknown"]
      [] t = "DrugNoticeRecord" ->    \* lines 1879-1887
             [rp_number |-> 1, content |-> <<>>, created_by |-> "Unknown"]
      [] t = "UsageRecord" ->    \* lines 1964-1977
             [rp_number |-> 1, name |-> <<>>, quantity |-> None, unit |-> None,
              dosage_form |-> None, usage_code_type |-> None, usage_code |-> None,
              created_by |-> "Unknown"]
      [] t = "UsageSupplementaryRecord" ->    \* lines 2042-2050
             [rp_number |-> 1, content |-> <<>>, created_by |-> "Unknown"]
      [] t = "RpNoticeRecord" ->    \* lines 2109-2117
             [rp_number |-> 1, content |-> <<>>, created_by |-> "Unknown"]
      [] t = "NoticeRecord" ->    \* lines 2173-2180
             [content |-> <<>>, created_by |-> "Unknown"]
      [] t = "InformationProvisionRecord" ->    \* lines 2239-2247
             [content |-> <<>>, information_type |-> "Other", created_by |-> "Unknown"]
      [] t = "NoteRecord" ->    \* lines 2303-2310
             [content |-> <<>>, created_by |-> "Unknown"]
      [] t = "FromPatientRecord" ->    \* lines 2365-2372
             [content |-> <<>>, created_at |-> None]
      [] t = "FamilyPharmacistRecord" ->    \* lines 2443-2454
             [name |-> <<>>, pharmacy_name |-> <<>>, contact_information |-> <<>>,
              start_date |-> None, end_date |-> None, created_by |-> "Unknown"]

\* s.parse::<T>() for a record type T
Record_from_str(t, s) ==
    CASE t = "VersionRecord" -> VersionRecord_from_str(s)
      [] t = "PatientRecord" -> PatientRecord_from_str(s)
      [] t = "SpecialPatientNoteRecord" -> SpecialPatientNoteRecord_from_str(s)
      [] t = "OtcDrugRecord" -> OtcDrugRecord_from_str(s)
      [] t = "MemoRecord" -> MemoRecord_from_str(s)
      [] t = "DateRecord" -> DateRecord_from_str(s)
      [] t = "PharmacyRecord" -> PharmacyRecord_from_str(s)
      [] t = "PharmacistRecord" -> PharmacistRecord_from_str(s)
      [] t = "MedicalInstitutionRecord" -> MedicalInstitutionRecord_from_str(s)
      [] t = "PhysicianRecord" -> PhysicianRecord_from_str(s)
      [] t = "DrugRecord" -> DrugRecord_from_str(s)
      [] t = "DrugSupplementaryRecord" -> DrugSupplementaryRecord_from_str(s)
      [] t = "DrugNoticeRecord" -> DrugNoticeRecord_from_str(s)
      [] t = "UsageRecord" -> UsageRecord_from_str(s)
      [] t = "UsageSupplementaryRecord" -> UsageSupplementaryRecord_from_str(s)
      [] t = "RpNoticeRecord" -> RpNoticeRecord_from_str(s)
      [] t = "NoticeRecord" -> NoticeRecord_from_str(s)
      [] t = "InformationProvisionRecord" -> InformationProvisionRecord_from_str(s)
      [] t = "NoteRecord" -> NoteRecord_from_str(s)
      [] t = "FromPatientRecord" -> FromPatientRecord_from_str(s)
      [] t = "FamilyPharmacistRecord" -> FamilyPharmacistRecord_from_str(s)

\* r.to_code() for a record r of type T
Record_to_code(t, r) ==
    CASE t = "VersionRecord" -> VersionRecord_to_code(r)
      [] t = "PatientRecord" -> PatientRecord_to_code(r)
      [] t = "SpecialPatientNoteRecord" -> SpecialPatientNoteRecord_to_code(r)
      [] t = "OtcDrugRecord" -> OtcDrugRecord_to_code(r)
      [] t = "MemoRecord" -> MemoRecord_to_code(r)
      [] t = "DateRecord" -> DateRecord_to_code(r)
      [] t = "PharmacyRecord" -> PharmacyRecord_to_code(r)
      [] t = "PharmacistRecord" -> PharmacistRecord_to_code(r)
      [] t = "MedicalInstitutionRecord" -> MedicalInstitutionRecord_to_code(r)
      [] t = "PhysicianRecord" -> PhysicianRecord_to_code(r)
      [] t = "DrugRecord" -> DrugRecord_to_code(r)
      [] t = "DrugSupplementaryRecord" -> DrugSupplementaryRecord_to_code(r)
      [] t = "DrugNoticeRecord" -> DrugNoticeRecord_to_code(r)
      [] t = "UsageRecord" -> UsageRecord_to_code(r)
      [] t = "UsageSupplementaryRecord" -> UsageSupplementaryRecord_to_code(r)
      [] t = "RpNoticeRecord" -> RpNoticeRecord_to_code(r)
      [] t = "NoticeRecord" -> NoticeRecord_to_code(r)
      [] t = "InformationProvisionRecord" -> InformationProvisionRecord_to_code(r)
      [] t = "NoteRecord" -> NoteRecord_to_code(r)
      [] t = "FromPatientRecord" -> FromPatientRecord_to_code(r)
      [] t = "FamilyPharmacistRecord" -> FamilyPharmacistRecord_to_code(r)

\* The values of an enumeration.
Values(t) ==
    CASE t = "Prefecture" -> Prefecture
      [] t = "FeeTable" -> FeeTable
      [] t = "DosageForm" -> DosageForm
      [] t = "RecordCreator" -> RecordCreator
      [] t = "OutputCategory" -> OutputCategory
      [] t = "Gender" -> Gender
      [] t = "SpecialPatientNoteCategory" -> SpecialPatientNoteCategory
      [] t = "DrugCodeType" -> DrugCodeType
      [] t = "UsageCodeType" -> UsageCodeType
      [] t = "ProvidedInformationType" -> ProvidedInformationType

\* s.parse::<T>() for an enumeration T
Enum_from_str(t, s) ==
    CASE t = "Prefecture" -> Prefecture_from_str(s)
      [] t = "FeeTable" -> FeeTable_from_str(s)
      [] t = "DosageForm" -> DosageForm_from_str(s)
      [] t = "RecordCreator" -> RecordCreator_from_str(s)
      [] t = "OutputCategory" -> OutputCategory_from_str(s)
      [] t = "Gender" -> Gender_from_str(s)
      [] t = "SpecialPatientNoteCategory" -> SpecialPatientNoteCategory_from_str(s)
      [] t = "DrugCodeType" -> DrugCodeType_from_str(s)
      [] t = "UsageCodeType" -> UsageCodeType_from_str(s)
      [] t = "ProvidedInformationType" -> ProvidedInformationType_from_str(s)

\* v.to_code() for a value v of an enumeration T
Enum_to_code(t, v) ==
    CASE t = "Prefecture" -> Prefecture_to_code(v)
      [] t = "FeeTable" -> FeeTable_to_code(v)
      [] t = "DosageForm" -> DosageForm_to_code(v)
      [] t = "RecordCreator" -> RecordCreator_to_code(v)
      [] t = "OutputCategory" -> OutputCategory_to_code(v)
      [] t = "Gender" -> Gender_to_code(v)
      [] t = "SpecialPatientNoteCategory" -> SpecialPatientNoteCategory_to_code(v)
      [] t = "DrugCodeType" -> DrugCodeType_to_code(v)
      [] t = "UsageCodeType" -> UsageCodeType_to_code(v)
      [] t = "ProvidedInformationType" -> ProvidedInformationType_to_code(v)

\* format!("{}", v) for a value v of an enumeration T
Enum_fmt(t, v) ==
    CASE t = "Prefecture" -> Prefecture_fmt(v)
      [] t = "FeeTable" -> FeeTable_fmt(v)
      [] t = "DosageForm" -> DosageForm_fmt(v)
      [] t = "RecordCreator" -> RecordCreator_fmt(v)
      [] t = "OutputCategory" -> OutputCategory_fmt(v)
      [] t = "Gender" -> Gender_fmt(v)
      [] t = "SpecialPatientNoteCategory" -> SpecialPatientNoteCategory_fmt(v)
      [] t = "DrugCodeType" -> DrugCodeType_fmt(v)
      [] t = "UsageCodeType" -> UsageCodeType_fmt(v)
      [] t = "ProvidedInformationType" -> ProvidedInformationType_fmt(v)

\* T::try_from(n) for an enumeration T and n: u32
try_from(t, n) ==
    CASE t = "Prefecture" -> Prefecture_try_from(n)
      [] t = "FeeTable" -> FeeTable_try_from(n)
      [] t = "DosageForm" -> DosageForm_try_from(n)
      [] t = "RecordCreator" -> RecordCreator_try_from(n)
      [] t = "OutputCategory" -> OutputCategory_try_from(n)
      [] t = "Gender" -> Gender_try_from(n)
      [] t = "SpecialPatientNoteCategory" -> SpecialPatientNoteCategory_try_from(n)
      [] t = "DrugCodeType" -> DrugCodeType_try_from(n)
      [] t = "UsageCodeType" -> UsageCodeType_try_from(n)
      [] t = "ProvidedInformationType" -> ProvidedInformationType_try_from(n)

(***************************************************************************)
(* The state machine.  A text is written line by line after one of a few   *)
(* fixed openings, joined by a line terminator and handed to from_str of   *)
(* the target type; an Ok value is serialized again by to_code.  On the    *)
(* document side a MedicineNotebook value is built field by field,         *)
(* serialized by to_code and parsed back by from_str.                      *)
(***************************************************************************)
MaxLines == 3
MaxBlocks == 2

Targets == {"MedicineNotebook", "DispensingInformationBlock", "PrescriptionBlock",
            "RpBlock", "DrugBlock", "Date"}
Terminators == {CRLF, <<LF>>, <<CR>>}

\* The lines a text of each target is written from.
Universe(t) ==
    CASE t = "MedicineNotebook" ->
             {L_Version, L_Patient, L_Note2, L_Note2Short, L_Otc3Short, L_Memo4, L_Date5,
              L_Pharmacy11, L_Drug201Zero, L_Usage301, L_From601NoContent, L_From601NoDate,
              L_Family701, L_Unknown8, L_Unknown4, L_Blank}
      [] t = "DispensingInformationBlock" ->
             {L_Date5, L_Date5b, L_Pharmacy11, L_Pharmacist15, L_Institution51,
              L_Physician55, L_Drug201, L_Usage301, L_Notice401, L_Info411, L_Note501,
              L_From601, L_From601NoDate, L_From601NoContent, L_From601Empty,
              L_Unknown5, L_Unknown4, L_Blank}
      [] t = "PrescriptionBlock" ->
             {L_Physician55, L_Drug201, L_Drug201Zero, L_DrugSupp281, L_DrugNotice291,
              L_Usage301, L_UsageSupp311, L_RpNotice391, L_Unknown5, L_Unknown4, L_Blank}
      [] t = "RpBlock" ->
             {L_Drug201, L_Drug201Zero, L_DrugSupp281, L_DrugNotice291, L_Usage301,
              L_UsageSupp311, L_RpNotice391, L_Unknown5, L_Unknown4, L_Unknown2, L_Blank}
      [] t = "DrugBlock" ->
             {L_Drug201, L_Drug201Zero, L_DrugSupp281, L_DrugNotice291, L_Usage301,
              L_Unknown5, L_Unknown4, L_Unknown2, L_Blank}
      [] t = "Date" ->
             {D_Seireki8, D_Wareki7, D_Digits6, D_Fullwidth, D_Month13, D_Letters}

\* The openings a text of each target starts with.
Openings(t) ==
    CASE t = "MedicineNotebook" ->
             {<<>>, <<L_Version, L_Patient>>,
              <<L_Version, L_Patient, L_Date5, L_Pharmacy11>>}
      [] t = "DispensingInformationBlock" -> {<<>>, <<L_Date5, L_Pharmacy11>>}
      [] t = "PrescriptionBlock" -> {<<>>, <<L_Drug201, L_Usage301>>}
      [] t = "RpBlock" -> {<<>>, <<L_Drug201, L_Usage301>>}
      [] OTHER -> {<<>>}

\* A Date is parsed from one string, the blocks from up to MaxLines more lines.
LineLimit(t) == IF t = "Date" THEN 1 ELSE MaxLines

\* s.parse::<T>() for the target type T.
from_str(t, s) ==
    CASE t = "MedicineNotebook" -> MedicineNotebook_from_str(s)
      [] t = "DispensingInformationBlock" -> DispensingInformationBlock_from_str(s)
      [] t = "PrescriptionBlock" -> PrescriptionBlock_from_str(s)
      [] t = "RpBlock" -> RpBlock_from_str(s)
      [] t = "DrugBlock" -> DrugBlock_from_str(s)
      [] t = "Date" -> Date_from_str(s)

\* v.to_code() for a value v of the target type.
to_code(t, v) ==
    CASE t = "MedicineNotebook" -> MedicineNotebook_to_code(v)
      [] t = "DispensingInformationBlock" -> DispensingInformationBlock_to_code(v)
      [] t = "PrescriptionBlock" -> PrescriptionBlock_to_code(v)
      [] t = "RpBlock" -> RpBlock_to_code(v)
      [] t = "DrugBlock" -> DrugBlock_to_code(v)
      [] t = "Date" -> Date_to_code(v)

\* s.parse::<T>() for a single value: a date, an era year, an enum or a record.
Value_from_str(t, s) ==
    CASE t = "Date" -> Date_from_str(s)
      [] t = "GengoYear" -> GengoYear_from_str(s)
      [] t \in Records -> Record_from_str(t, s)
      [] t \in Enums -> Enum_from_str(t, s)

\* v.to_code() for a single value v.
Value_to_code(t, v) ==
    CASE t = "Date" -> Date_to_code(v)
      [] t = "GengoYear" -> GengoYear_to_code(v)
      [] t \in Records -> Record_to_code(t, v)
      [] t \in Enums -> Enum_to_code(t, v)

\* The text handed to from_str: the lines joined by the terminator s.
Text(s) == Join(head \o lines, s)

EndsInCR(t) == t # <<>> /\ t[Len(t)] = CR

Init ==
    /\ target \in Targets
    /\ head \in Openings(target)
    /\ lines = <<>>
    /\ sep = <<>>
    /\ result = <<>>
    /\ code = <<>>
    /\ doc = <<>>
    /\ op = ""
    /\ arg = <<>>

\* One more line is written.
AppendLine(l) ==
    /\ doc = <<>>
    /\ result = <<>>
    /\ Len(lines) < LineLimit(target)
    /\ lines' = Append(lines, l)
    /\ UNCHANGED <<op, arg, target, head, sep, result, code, doc>>

\* The text, joined by the terminator s, is parsed.  No text ends in a CR
\* that no LF follows: what str::lines() does with it differs between
\* releases of the standard library.
FromStr(s) ==
    /\ doc = <<>>
    /\ result = <<>>
    /\ ~EndsInCR(Text(s))
    /\ sep' = s
    /\ result' = <<from_str(target, Text(s))>>
    /\ UNCHANGED <<op, arg, target, head, lines, code, doc>>

\* The value the parse returned is serialized.
ToCode ==
    /\ doc = <<>>
    /\ result # <<>>
    /\ result[1].ok
    /\ code = <<>>
    /\ code' = <<to_code(target, Val(result[1]))>>
    /\ UNCHANGED <<op, arg, target, head, lines, sep, result, doc>>

\* ---- the document side ----
TheDrugBlock ==
    [drug |-> Val(DrugRecord_from_str(L_Drug201)), drug_supplementary |-> <<>>,
     drug_notice |-> <<>>]
TheRpBlock ==
    [drugs |-> <<TheDrugBlock>>, usage |-> Val(UsageRecord_from_str(L_Usage301)),
     usage_supplementary |-> <<>>, rp_notice |-> <<>>]
\* rps: Vec<RpBlock>, empty or of one RpBlock
RpLists == {<<>>, <<TheRpBlock>>}
Physicians == {None, Some(Val(PhysicianRecord_from_str(L_Physician55)))}
\* FromPatientRecord { content, created_at }: the four combinations of an
\* empty or non-empty content with an absent or present date.
FromPatients ==
    {[content |-> c, created_at |-> d] :
        c \in {<<>>, <<"a", "b", "c", "d">>},
        d \in {None, Some(Val(Date_from_str(D_Seireki8)))}}

\* MedicineNotebook { version, patient, .. }: the two required records, every list empty.
NewDocument ==
    /\ target = "MedicineNotebook"
    /\ head = <<>> /\ lines = <<>> /\ result = <<>> /\ doc = <<>>
    /\ doc' = <<[version |-> Val(VersionRecord_from_str(L_Version)),
                 patient |-> Val(PatientRecord_from_str(L_Patient)),
                 special_patient_notes |-> <<>>, otc_drugs |-> <<>>, memos |-> <<>>,
                 dispensing_information |-> <<>>, family_pharmacist |-> <<>>]>>
    /\ UNCHANGED <<op, arg, target, head, lines, sep, result, code>>

\* memos.push(MemoRecord { .. })
PushMemo ==
    /\ doc # <<>> /\ code = <<>>
    /\ Len(doc[1].memos) < MaxBlocks
    /\ doc' = <<[doc[1] EXCEPT !.memos = Append(@, Val(MemoRecord_from_str(L_Memo4)))]>>
    /\ UNCHANGED <<op, arg, target, head, lines, sep, result, code>>

\* dispensing_information.push(DispensingInformationBlock { date, pharmacy, from_patient, .. })
PushDispensingInformationBlock(fp) ==
    /\ doc # <<>> /\ code = <<>>
    /\ Len(doc[1].dispensing_information) < MaxBlocks
    /\ doc' = <<[doc[1] EXCEPT !.dispensing_information = Append(@,
                    [date |-> Val(DateRecord_from_str(L_Date5)),
                     pharmacy |-> Val(PharmacyRecord_from_str(L_Pharmacy11)),
                     pharmacist |-> None, medical_institute |-> None,
                     prescriptions |-> <<>>, notice |-> None,
                     information_provision |-> None, note |-> None,
                     from_patient |-> fp])]>>
    /\ UNCHANGED <<op, arg, target, head, lines, sep, result, code>>

\* prescriptions.push(PrescriptionBlock { physician, rps }) on the last
\* DispensingInformationBlock
PushPrescriptionBlock(ph, rps) ==
    /\ doc # <<>> /\ code = <<>>
    /\ doc[1].dispensing_information # <<>>
    /\ LET n == Len(doc[1].dispensing_information)
       IN  /\ Len(doc[1].dispensing_information[n].prescriptions) < MaxBlocks
           /\ doc' = <<[doc[1] EXCEPT !.dispensing_information[n].prescriptions =
                           Append(@, [physician |-> ph, rps |-> rps])]>>
    /\ UNCHANGED <<op, arg, target, head, lines, sep, result, code>>

\* code = doc.to_code()
DocToCode ==
    /\ doc # <<>> /\ code = <<>>
    /\ code' = <<MedicineNotebook_to_code(doc[1])>>
    /\ UNCHANGED <<op, arg, target, head, lines, sep, result, doc>>

\* result = code.parse::<MedicineNotebook>()
DocFromStr ==
    /\ doc # <<>> /\ code # <<>> /\ result = <<>>
    /\ result' = <<MedicineNotebook_from_str(code[1])>>
    /\ UNCHANGED <<op, arg, target, head, lines, sep, code, doc>>

Next ==
    \/ \E l \in Universe(target) : AppendLine(l)
    \/ \E s \in Terminators : FromStr(s)
    \/ ToCode
    \/ NewDocument
    \/ PushMemo
    \/ \E fp \in {None} \cup {Some(f) : f \in FromPatients} : PushDispensingInformationBlock(fp)
    \/ \E ph \in Physicians, rps \in RpLists : PushPrescriptionBlock(ph, rps)
    \/ DocToCode
    \/ DocFromStr

Spec == Init /\ [][Next]_vars

(***************************************************************************)
(* The machine of single values.  One operation of one type is applied to  *)
(* one argument: a value is serialized by to_code and parsed back by       *)
(* from_str, a string is parsed by from_str, a number is converted by      *)
(* try_from, a date is converted by try_to_wareki7.                        *)
(***************************************************************************)
MaxCode == 100
MaxGengoYear == 99

Eras == {"Reiwa", "Heisei", "Showa", "Taisho", "Meiji"}
GengoYears == {GengoYear(e, y) : e \in Eras, y \in 1..MaxGengoYear}

\* The years of the dates handed to try_to_wareki7: the years the eras
\* change in, their neighbours, and the years the era year gets a third digit in.
Years == {1872, 1873, 1900, 1912, 1925, 1926, 1927, 1988, 1989, 1990, 2018, 2019, 2020,
          2117, 2118, 9999}
GregorianDates ==
    {dt \in {Seireki(y, m, d) : y \in Years, m \in 1..12, d \in 1..31} :
        dt.day <= DaysInMonth(dt.year, dt.month)}

\* The code strings handed to from_str of an enumeration: the numbers up to
\* MaxCode, plain and padded to two digits.
CodeStrings == {to_string(n) : n \in 0..MaxCode} \cup {Format0(n, 2) : n \in 0..MaxCode}

DateStrings ==
    {D_Seireki8, D_Wareki7, D_Digits6, D_Fullwidth, D_Month13, D_Letters, D_Feb30, D_Day00,
     D_Digits7, D_Digits9, D_WarekiFeb30, D_WarekiMonth13, D_Lowercase, D_OtherLetter,
     D_Wareki8, D_Wareki6, D_Heisei, D_Meiji, D_Empty}

\* The romanized name of a prefecture: the name of its variant (enum Prefecture).
Romanized(p) ==
    CASE p = "Hokkaido" -> <<"H", "o", "k", "k", "a", "i", "d", "o">>
      [] p = "Aomori" -> <<"A", "o", "m", "o", "r", "i">>
      [] p = "Iwate" -> <<"I", "w", "a", "t", "e">>
      [] p = "Miyagi" -> <<"M", "i", "y", "a", "g", "i">>
      [] p = "Akita" -> <<"A", "k", "i", "t", "a">>
      [] p = "Yamagata" -> <<"Y", "a", "m", "a", "g", "a", "t", "a">>
      [] p = "Fukushima" -> <<"F", "u", "k", "u", "s", "h", "i", "m", "a">>
      [] p = "Ibaraki" -> <<"I", "b", "a", "r", "a", "k", "i">>
      [] p = "Tochigi" -> <<"T", "o", "c", "h", "i", "g", "i">>
      [] p = "Gumma" -> <<"G", "u", "m", "m", "a">>
      [] p = "Saitama" -> <<"S", "a", "i", "t", "a", "m", "a">>
      [] p = "Chiba" -> <<"C", "h", "i", "b", "a">>
      [] p = "Tokyo" -> <<"T", "o", "k", "y", "o">>
      [] p = "Kanagawa" -> <<"K", "a", "n", "a", "g", "a", "w", "a">>
      [] p = "Niigata" -> <<"N", "i", "i", "g", "a", "t", "a">>
      [] p = "Toyama" -> <<"T", "o", "y", "a", "m", "a">>
      [] p = "Ishikawa" -> <<"I", "s", "h", "i", "k", "a", "w", "a">>
      [] p = "Fukui" -> <<"F", "u", "k", "u", "i">>
      [] p = "Yamanashi" -> <<"Y", "a", "m", "a", "n", "a", "s", "h", "i">>
      [] p = "Nagano" -> <<"N", "a", "g", "a", "n", "o">>
      [] p = "Gifu" -> <<"G", "i", "f", "u">>
      [] p = "Shizuoka" -> <<"S", "h", "i", "z", "u", "o", "k", "a">>
      [] p = "Aichi" -> <<"A", "i", "c", "h", "i">>
      [] p = "Mie" -> <<"M", "i", "e">>
      [] p = "Shiga" -> <<"S", "h", "i", "g", "a">>
      [] p = "Kyoto" -> <<"K", "y", "o", "t", "o">>
      [] p = "Osaka" -> <<"O", "s", "a", "k", "a">>
      [] p = "Hyogo" -> <<"H", "y", "o", "g", "o">>
      [] p = "Nara" -> <<"N", "a", "r", "a">>
      [] p = "Wakayama" -> <<"W", "a", "k", "a", "y", "a", "m", "a">>
      [] p = "Tottori" -> <<"T", "o", "t", "t", "o", "r", "i">>
      [] p = "Shimane" -> <<"S", "h", "i", "m", "a", "n", "e">>
      [] p = "Okayama" -> <<"O", "k", "a", "y", "a", "m", "a">>
      [] p = "Hiroshima" -> <<"H", "i", "r", "o", "s", "h", "i", "m", "a">>
      [] p = "Yamaguchi" -> <<"Y", "a", "m", "a", "g", "u", "c", "h", "i">>
      [] p = "Tokushima" -> <<"T", "o", "k", "u", "s", "h", "i", "m", "a">>
      [] p = "Kagawa" -> <<"K", "a", "g", "a", "w", "a">>
      [] p = "Ehime" -> <<"E", "h", "i", "m", "e">>
      [] p = "Kochi" -> <<"K", "o", "c", "h", "i">>
      [] p = "Fukuoka" -> <<"F", "u", "k", "u", "o", "k", "a">>
      [] p = "Saga" -> <<"S", "a", "g", "a">>
      [] p = "Nagasaki" -> <<"N", "a", "g", "a", "s", "a", "k", "i">>
      [] p = "Kumamoto" -> <<"K", "u", "m", "a", "m", "o", "t", "o">>
      [] p = "Oita" -> <<"O", "i", "t", "a">>
      [] p = "Miyazaki" -> <<"M", "i", "y", "a", "z", "a", "k", "i">>
      [] p = "Kagoshima" -> <<"K", "a", "g", "o", "s", "h", "i", "m", "a">>
      [] p = "Okinawa" -> <<"O", "k", "i", "n", "a", "w", "a">>

\* The Japanese name without its suffix U+90FD, U+5E9C or U+770C (Hokkaido has none of them).
ShortName(p) ==
    LET n == Prefecture_fmt(p)
    IN  IF n[Len(n)] \in {"U+90FD", "U+5E9C", "U+770C"} THEN SubSeq(n, 1, Len(n) - 1) ELSE n

\* The five spellings of a prefecture: code, ISO 3166-2 code, long and short
\* Japanese name, romanized name.
Spellings(p) ==
    {Prefecture_to_code(p), <<"J", "P", "-">> \o Prefecture_to_code(p), Prefecture_fmt(p),
     ShortName(p), Romanized(p)}

ValueInit ==
    /\ head = <<>> /\ lines = <<>> /\ sep = <<>> /\ doc = <<>>
    /\ result = <<>> /\ code = <<>>
    /\ \/ /\ target \in Records /\ op = "to_code" /\ arg = <<Default(target)>>
       \/ /\ target \in Enums /\ op = "to_code" /\ \E v \in Values(target) : arg = <<v>>
       \/ /\ target = "GengoYear" /\ op = "to_code" /\ \E g \in GengoYears : arg = <<g>>
       \/ /\ target \in Enums /\ op = "from_str" /\ \E s \in CodeStrings : arg = <<s>>
       \/ /\ target \in Enums /\ op = "from_str"
          /\ \E v \in Values(target) : arg = <<Enum_fmt(target, v)>>
       \/ /\ target = "Prefecture" /\ op = "from_str"
          /\ \E p \in Prefecture : \E s \in Spellings(p) : arg = <<s>>
       \/ /\ target \in Enums /\ op = "try_from" /\ \E n \in 0..MaxCode : arg = <<n>>
       \/ /\ target = "Date" /\ op = "from_str" /\ \E s \in DateStrings : arg = <<s>>
       \/ /\ target \in Records /\ op = "from_str"
          /\ \E s \in RecordLines \cup BadRecordLines : arg = <<s>>
       \/ /\ target = "Date" /\ op = "try_to_wareki7"
          /\ \E d \in GregorianDates : arg = <<d>>

\* code = arg.to_code()
ValueToCode ==
    /\ op = "to_code" /\ code = <<>>
    /\ code' = <<Value_to_code(target, arg[1])>>
    /\ UNCHANGED <<op, arg, target, head, lines, sep, result, doc>>

\* result = code.parse::<T>()
ValueFromStr ==
    /\ op = "to_code" /\ code # <<>> /\ result = <<>>
    /\ result' = <<Value_from_str(target, code[1])>>
    /\ UNCHANGED <<op, arg, target, head, lines, sep, code, doc>>

\* result = arg.parse::<T>()
StrParse ==
    /\ op = "from_str" /\ result = <<>>
    /\ result' = <<Value_from_str(target, arg[1])>>
    /\ UNCHANGED <<op, arg, target, head, lines, sep, code, doc>>

\* result = T::try_from(arg)
TryFrom ==
    /\ op = "try_from" /\ result = <<>>
    /\ result' = <<try_from(target, arg[1])>>
    /\ UNCHANGED <<op, arg, target, head, lines, sep, code, doc>>

\* result = arg.try_to_wareki7()
TryToWareki7 ==
    /\ op = "try_to_wareki7" /\ result = <<>>
    /\ result' = <<Date_try_to_wareki7(arg[1])>>
    /\ UNCHANGED <<op, arg, target, head, lines, sep, code, doc>>

ValueNext ==
    \/ ValueToCode
    \/ ValueFromStr
    \/ StrParse
    \/ TryFrom
    \/ TryToWareki7

ValueSpec == ValueInit /\ [][ValueNext]_vars

(***************************************************************************)
(* The vocabulary of the properties: the tag of a line, the section a tag  *)
(* belongs to, and the lines that are record lines of the format.          *)
(***************************************************************************)
All == head \o lines

HasPrefix(line, p) == Len(line) >= Len(p) /\ SubSeq(line, 1, Len(p)) = p

Tags == {1, 2, 3, 4, 5, 11, 15, 51, 55, 201, 281, 291, 301, 311, 391, 401, 411, 501, 601, 701}

\* 0 for a Version line, the record number for a line that starts with a
\* record number and a comma, -1 for any other line.
Tag(line) ==
    IF HasPrefix(line, JAHISTC) THEN 0
    ELSE IF \E n \in Tags : HasPrefix(line, Append(to_string(n), ","))
    THEN CHOOSE n \in Tags : HasPrefix(line, Append(to_string(n), ","))
    ELSE -1

PrescriptionTags == {55, 201, 281, 291, 301, 311, 391}
DispensingTags == {5, 11, 15, 51} \cup PrescriptionTags \cup {401, 411, 501, 601}
DispensingSingletons == {5, 11, 15, 51, 401, 411, 501, 601}

\* The section of a line inside a DispensingInformationBlock: 55 and 201..391
\* form one section.
DispensingSection(line) == IF Tag(line) \in PrescriptionTags THEN 55 ELSE Tag(line)

\* The section of a line inside a MedicineNotebook: 5..601 form one section.
NotebookSection(line) == IF Tag(line) \in DispensingTags THEN 5 ELSE Tag(line)

AllRecordLines == \A i \in 1..Len(All) : All[i] \in RecordLines

\* No line belongs to a PrescriptionBlock (55, 201..391), whose lines must
\* also form complete RpBlocks.
NoPrescriptionLines == \A i \in 1..Len(All) : Tag(All[i]) \notin PrescriptionTags

\* The lines of the dispensing range, if any, begin with their only Date(5) line.
DateLineFirst ==
    \A i \in 1..Len(All) : Tag(All[i]) = 5 =>
        \A j \in 1..(i - 1) : Tag(All[j]) \notin DispensingTags

\* from_str of the target type t has returned on a text whose lines the
\* terminator separates for str::lines().
Parsed(t) == target = t /\ doc = <<>> /\ result # <<>> /\ sep # <<CR>>

Fails(kind) == ~result[1].ok /\ result[1].err = kind

Blocks == {"MedicineNotebook", "DispensingInformationBlock", "PrescriptionBlock",
           "RpBlock", "DrugBlock"}

(***************************************************************************)
(* C1: round trip from the document side.  For every well-formed           *)
(* MedicineNotebook D, MedicineNotebook::from_str(D.to_code()) returns     *)
(* Ok(D).  Every document the machine builds is well formed: each RpBlock  *)
(* holds a DrugBlock and no string holds a comma or a line break.          *)
(***************************************************************************)
C1_DocumentRoundTrip == (doc # <<>> /\ result # <<>>) => result[1] = Ok(doc[1])

\* A document whose FromPatient record has a content and no date has been
\* serialized and parsed back, and the parse failed.
C1_FromPatientLost ==
    /\ doc # <<>> /\ result # <<>>
    /\ Len(doc[1].dispensing_information) = 1
    /\ doc[1].dispensing_information[1].from_patient
         = Some([content |-> <<"a", "b", "c", "d">>, created_at |-> None])
    /\ Fails("InvalidArgument")

(***************************************************************************)
(* C2: round trip from the text side.  For every text T joined by CR LF    *)
(* that holds no blank line and that MedicineNotebook::from_str parses to  *)
(* Ok(D), D.to_code() equals T line for line.                              *)
(***************************************************************************)
C2_TextRoundTrip ==
    (/\ Parsed("MedicineNotebook") /\ sep = CRLF /\ code # <<>>
     /\ \A i \in 1..Len(All) : All[i] # <<>>)
        => str_lines(code[1]) = All

\* A text that ends with the line "601,,20200101" has been parsed and
\* serialized, and the date is gone from the output.
C2_DateDropped ==
    /\ Parsed("MedicineNotebook") /\ sep = CRLF /\ code # <<>>
    /\ lines = <<L_From601NoContent>>
    /\ str_lines(code[1]) = head \o <<L_From601Empty>>

(***************************************************************************)
(* C3: DispensingInformationBlock::from_str enforces the section order     *)
(* 5 < 11 < 15 < 51 < {55, 201..391} < 401 < 411 < 501 < 601.  Whenever a  *)
(* line belongs to an earlier section than a line before it, the parse     *)
(* fails with GotUnexpectedRecordLine.  Stated for texts of well-formed    *)
(* record lines other than FromPatient(601) lines and the lines of a       *)
(* PrescriptionBlock.                                                      *)
(***************************************************************************)
C3_DispensingOrder ==
    (/\ Parsed("DispensingInformationBlock") /\ AllRecordLines /\ NoPrescriptionLines
     /\ \A i \in 1..Len(All) : Tag(All[i]) # 601
     /\ \E i \in 1..Len(All) : \E j \in (i + 1)..Len(All) :
            DispensingSection(All[j]) < DispensingSection(All[i]))
        => Fails("GotUnexpectedRecordLine")

\* The text of a Pharmacy(11) line followed by a Date(5) line has been
\* parsed, and the parse returned Ok.
C3_PharmacyBeforeDate ==
    /\ Parsed("DispensingInformationBlock")
    /\ All = <<L_Pharmacy11, L_Date5>>
    /\ result[1].ok

(***************************************************************************)
(* C4: MedicineNotebook::from_str enforces the order Version, Patient(1),  *)
(* 2*, 3*, 4*, (5..601)*, 701*.  Whenever a line belongs to an earlier     *)
(* section than a non-blank line before it, or a second Version or a       *)
(* second Patient line occurs, the parse fails with                        *)
(* GotUnexpectedRecordLine.  Stated for texts of well-formed record lines  *)
(* whose dispensing range, if any, begins with its only Date(5) line.      *)
(***************************************************************************)
C4_NotebookOrder ==
    (/\ Parsed("MedicineNotebook") /\ AllRecordLines /\ DateLineFirst
     /\ \E i \in 1..Len(All) : \E j \in (i + 1)..Len(All) :
            \/ NotebookSection(All[j]) < NotebookSection(All[i])
            \/ Tag(All[i]) \in {0, 1} /\ Tag(All[j]) = Tag(All[i]))
        => Fails("GotUnexpectedRecordLine")

\* The text of a Memo(4) line followed by the OtcDrug(3) line "3,a,,,1" has
\* been parsed, and the parse panicked.
C4_ShortLineAfterMemo ==
    /\ Parsed("MedicineNotebook")
    /\ All = <<L_Memo4, L_Otc3Short>>
    /\ result[1] = Panic

(***************************************************************************)
(* C5: missing required records.  On well-formed record lines in section   *)
(* order, none of them a line of a PrescriptionBlock,                      *)
(* DispensingInformationBlock::from_str fails with MissingRequiredRecord   *)
(* when no Date(5) line or no Pharmacy(11) line is present, and            *)
(* MedicineNotebook::from_str fails with MissingRequiredRecord when no     *)
(* Version line or no Patient line is present (the lines of the            *)
(* dispensing range forming at most one block).                            *)
(***************************************************************************)
C5_MissingRequired ==
    /\ (/\ Parsed("DispensingInformationBlock") /\ AllRecordLines /\ NoPrescriptionLines
        /\ \A i \in 1..Len(All) : \A j \in (i + 1)..Len(All) :
               /\ DispensingSection(All[i]) <= DispensingSection(All[j])
               /\ Tag(All[i]) \in DispensingSingletons => Tag(All[i]) # Tag(All[j])
        /\ \/ \A i \in 1..Len(All) : Tag(All[i]) # 5
           \/ \A i \in 1..Len(All) : Tag(All[i]) # 11)
           => Fails("MissingRequiredRecord")
    /\ (/\ Parsed("MedicineNotebook") /\ AllRecordLines /\ NoPrescriptionLines
        /\ \A i \in 1..Len(All) : \A j \in (i + 1)..Len(All) :
               /\ NotebookSection(All[i]) <= NotebookSection(All[j])
               /\ Tag(All[i]) \in {0, 1} => Tag(All[i]) # Tag(All[j])
               /\ (Tag(All[i]) \in DispensingTags /\ Tag(All[j]) \in DispensingTags)
                      => DispensingSection(All[i]) < DispensingSection(All[j])
        /\ \/ \A i \in 1..Len(All) : Tag(All[i]) # 0
           \/ \A i \in 1..Len(All) : Tag(All[i]) # 1)
           => Fails("MissingRequiredRecord")

\* The text of a Version line followed by the SpecialPatientNote(2) line
\* "2,1,,1" holds no Patient line; it has been parsed, and the parse panicked.
C5_NoPatientPanics ==
    /\ Parsed("MedicineNotebook")
    /\ All = <<L_Version, L_Note2Short>>
    /\ result[1] = Panic

(***************************************************************************)
(* C6: in DispensingInformationBlock::from_str a second occurrence of a    *)
(* singleton record (5, 11, 15, 51, 401, 411, 501, 601) makes the parse    *)
(* fail with GotUnexpectedRecordLine, wherever it stands.  Stated for      *)
(* texts of well-formed record lines, none of them a line of a             *)
(* PrescriptionBlock.                                                      *)
(***************************************************************************)
C6_SecondSingleton ==
    (/\ Parsed("DispensingInformationBlock") /\ AllRecordLines /\ NoPrescriptionLines
     /\ \E i \in 1..Len(All) : \E j \in (i + 1)..Len(All) :
            Tag(All[i]) \in DispensingSingletons /\ Tag(All[j]) = Tag(All[i]))
        => Fails("GotUnexpectedRecordLine")

\* The text of two FromPatient(601) lines "601,abcd," has been parsed, and
\* the parse failed with InvalidArgument.
C6_SecondFromPatient ==
    /\ Parsed("DispensingInformationBlock")
    /\ All = <<L_From601NoDate, L_From601NoDate>>
    /\ Fails("InvalidArgument")

(***************************************************************************)
(* C7: DrugBlock::from_str rejects a 281 line after a 291 line, and        *)
(* RpBlock::from_str rejects a 311 line after a 391 line, with             *)
(* GotUnexpectedRecordLine.  Stated for texts of well-formed record lines. *)
(***************************************************************************)
C7_ChildOrder ==
    /\ (/\ Parsed("DrugBlock") /\ AllRecordLines
        /\ \E i \in 1..Len(All) : \E j \in (i + 1)..Len(All) :
               Tag(All[i]) = 291 /\ Tag(All[j]) = 281)
           => Fails("GotUnexpectedRecordLine")
    /\ (/\ Parsed("RpBlock") /\ AllRecordLines
        /\ \E i \in 1..Len(All) : \E j \in (i + 1)..Len(All) :
               Tag(All[i]) = 391 /\ Tag(All[j]) = 311)
           => Fails("GotUnexpectedRecordLine")

\* The text 201, 291, 281 has been parsed as a DrugBlock, and the parse
\* returned Ok.
C7_SupplementAfterNotice ==
    /\ Parsed("DrugBlock")
    /\ All = <<L_Drug201, L_DrugNotice291, L_DrugSupp281>>
    /\ result[1].ok

(***************************************************************************)
(* C8: every parse operation is total.  MedicineNotebook::from_str, the    *)
(* four block parsers and Date::from_str return Ok or Err on every input   *)
(* and never panic.                                                        *)
(***************************************************************************)
C8_Total == result # <<>> => result[1] # Panic

\* A string of six digits has been handed to Date::from_str, and the call
\* panicked.
C8_SixDigitDatePanics ==
    /\ target = "Date" /\ result # <<>>
    /\ lines = <<D_Digits6>>
    /\ result[1] = Panic

(***************************************************************************)
(* C9: tag recognition.  In every block parser a non-blank line of any     *)
(* length whose prefix is no known tag fails the parse with                *)
(* GotUnexpectedRecordLine.  Stated for the first non-blank line of the    *)
(* text.                                                                   *)
(***************************************************************************)
C9_UnknownTag ==
    (/\ target \in Blocks /\ doc = <<>> /\ result # <<>> /\ sep # <<CR>>
     /\ \E i \in 1..Len(All) :
            /\ All[i] # <<>> /\ Tag(All[i]) = -1
            /\ \A j \in 1..(i - 1) : All[j] = <<>>)
        => Fails("GotUnexpectedRecordLine")

\* The text of the one line "999," has been parsed as a RpBlock, and the
\* parse panicked.
C9_FourCharactersPanic ==
    /\ Parsed("RpBlock")
    /\ All = <<L_Unknown4>>
    /\ result[1] = Panic

(***************************************************************************)
(* C10: input line terminators.  For every sequence of record lines the    *)
(* block parsers return the same result whether the lines are joined by    *)
(* CR LF, by LF or by CR.                                                  *)
(***************************************************************************)
C10_Terminators ==
    (target \in Blocks /\ doc = <<>> /\ result # <<>>)
        => result[1] = from_str(target, Text(CRLF))

\* A Date(5) line and a Pharmacy(11) line joined by CR have been parsed as
\* a DispensingInformationBlock; the parse failed, and the parse of the
\* same lines joined by CR LF returns Ok.
C10_BareCarriageReturn ==
    /\ target = "DispensingInformationBlock" /\ doc = <<>> /\ result # <<>>
    /\ sep = <<CR>>
    /\ All = <<L_Date5, L_Pharmacy11>>
    /\ Fails("InvalidRecordLine")
    /\ from_str(target, Text(CRLF)).ok

(***************************************************************************)
(* C11: blank lines are ignored on input.  For every text T, the result    *)
(* of from_str(T), the parsed value or the error, is the result of         *)
(* from_str on T without its empty lines, wherever the empty lines stand:  *)
(* for MedicineNotebook::from_str and for the parser of each nested block. *)
(***************************************************************************)
NotBlank(line) == line # <<>>

C11_BlankLinesIgnored ==
    (target \in Blocks /\ doc = <<>> /\ result # <<>> /\ sep # <<CR>>)
        => result[1] = from_str(target, Join(SelectSeq(All, NotBlank), sep))

\* A MedicineNotebook text with an empty line between the Pharmacy(11) line
\* and the lines of an RpBlock has been parsed to a document with one
\* DispensingInformationBlock that holds one PrescriptionBlock.
C11_BlankInsideBlock ==
    /\ Parsed("MedicineNotebook")
    /\ All = <<L_Version, L_Patient, L_Date5, L_Pharmacy11, L_Blank, L_Drug201Zero,
               L_Usage301>>
    /\ result[1].ok
    /\ Len(Val(result[1]).dispensing_information) = 1
    /\ Len(Val(result[1]).dispensing_information[1].prescriptions) = 1

(***************************************************************************)
(* C12: blank lines are not emitted on output.  For every MedicineNotebook *)
(* D that section 3.3 allows, a PrescriptionBlock with no Physician and no *)
(* RpBlock included, D.to_code() holds no empty line: it neither begins    *)
(* nor ends with CR LF and holds no two consecutive CR LF.                 *)
(***************************************************************************)
HasBlankLine(t) ==
    \/ HasPrefix(t, CRLF)
    \/ Len(t) >= 2 /\ SubSeq(t, Len(t) - 1, Len(t)) = CRLF
    \/ \E i \in 1..(Len(t) - 3) : SubSeq(t, i, i + 3) = CRLF \o CRLF

C12_NoBlankOutput == (doc # <<>> /\ code # <<>>) => ~HasBlankLine(code[1])

\* A document whose only DispensingInformationBlock holds one PrescriptionBlock
\* with no Physician and no RpBlock has been serialized, and the output ends
\* with CR LF.
C12_EmptyPrescriptionBlock ==
    /\ doc # <<>> /\ code # <<>>
    /\ Len(doc[1].dispensing_information) = 1
    /\ doc[1].dispensing_information[1].prescriptions = <<[physician |-> None, rps |-> <<>>]>>
    /\ doc[1].dispensing_information[1].from_patient = None
    /\ code[1] = Join(<<L_Version, L_Patient, L_Date5, L_Pharmacy11>>, CRLF) \o CRLF

(***************************************************************************)
(* C13: default records round trip.  For every record type R (Version,     *)
(* Patient, ..., FamilyPharmacist) and its default-constructed instance r, *)
(* R::from_str(r.to_code()) returns Ok(r).                                 *)
(***************************************************************************)
C13_DefaultRoundTrip ==
    (target \in Records /\ op = "to_code" /\ result # <<>>) => result[1] = Ok(arg[1])

\* The default PatientRecord has been serialized to "1,,1,19700101,,,,,,," and
\* parsed back to itself.
C13_DefaultPatient ==
    /\ target = "PatientRecord" /\ op = "to_code"
    /\ arg = <<Default("PatientRecord")>>
    /\ code = <<<<"1", ",", ",", "1", ",", "1", "9", "7", "0", "0", "1", "0", "1", ",", ",",
                  ",", ",", ",", ",", ",">>>>
    /\ result = <<Ok(Default("PatientRecord"))>>

(***************************************************************************)
(* C14: enumerations round trip.  For every value v of every enumeration   *)
(* of the code tables, and of GengoYear with a year in 1..99,              *)
(* from_str(v.to_code()) returns Ok(v); and try_from(n) returns Ok(v) when *)
(* n is the numeric code of v.                                             *)
(***************************************************************************)
NumericCode(t, v) == DecimalValue(Value_to_code(t, v))

C14_EnumRoundTrip ==
    /\ (target \in Enums \cup {"GengoYear"} /\ op = "to_code" /\ result # <<>>)
           => result[1] = Ok(arg[1])
    /\ (target \in Enums /\ op = "try_from" /\ result # <<>>)
           => \A v \in Values(target) : NumericCode(target, v) = arg[1] => result[1] = Ok(v)

\* SpecialPatientNoteCategory::Other, whose code 9 follows the gap 4..8, has
\* been serialized to "9" and parsed back to itself.
C14_OtherAfterGap ==
    /\ target = "SpecialPatientNoteCategory" /\ op = "to_code"
    /\ arg = <<"Other">> /\ code = <<<<"9">>>> /\ result = <<Ok("Other")>>

(***************************************************************************)
(* C15: gaps in the code tables are preserved.  to_code never returns a    *)
(* number outside the table of the enumeration, and from_str and try_from  *)
(* reject with InvalidArgument every code outside it: 2 for FeeTable, 8    *)
(* for DosageForm, 5 for DrugCodeType, 3..7 for RecordCreator, 4..8 for    *)
(* SpecialPatientNoteCategory, 0 and 48 and above for Prefecture.          *)
(***************************************************************************)
ListedCodes(t) ==
    CASE t = "Prefecture" -> 1..47
      [] t = "FeeTable" -> {1, 3, 4}
      [] t = "DosageForm" -> {1, 2, 3, 4, 5, 6, 7, 9, 10}
      [] t = "RecordCreator" -> {1, 2, 8, 9}
      [] t = "OutputCategory" -> {1, 2}
      [] t = "Gender" -> {1, 2}
      [] t = "SpecialPatientNoteCategory" -> {1, 2, 3, 9}
      [] t = "DrugCodeType" -> {1, 2, 3, 4, 6}
      [] t = "UsageCodeType" -> {1, 2}
      [] t = "ProvidedInformationType" -> {30, 31, 99}

C15_GapsPreserved ==
    /\ (target \in Enums /\ op = "to_code" /\ code # <<>>)
           => DecimalValue(code[1]) \in ListedCodes(target)
    /\ (target \in Enums /\ op = "from_str" /\ result # <<>>
           /\ arg[1] \in CodeStrings
           /\ DecimalValue(arg[1]) \notin ListedCodes(target))
           => Fails("InvalidArgument")
    /\ (target \in Enums /\ op = "try_from" /\ result # <<>>
           /\ arg[1] \notin ListedCodes(target))
           => Fails("InvalidArgument")

\* DosageForm::try_from(8) has returned Err(InvalidArgument).
C15_DosageFormEight ==
    /\ target = "DosageForm" /\ op = "try_from" /\ arg = <<8>>
    /\ result # <<>> /\ Fails("InvalidArgument")

(***************************************************************************)
(* C16: era boundaries.  For every Gregorian date d, try_to_wareki7        *)
(* returns the Reiwa form (year - 2018) from 2019-05-01 on, the Heisei     *)
(* form (year - 1988) from 1989-01-08 on, the Showa form (year - 1925)     *)
(* from 1926-12-25 on, the Taisho form (year - 1911) from 1912-07-30 on,   *)
(* the Meiji form (year - 1867) from 1873-01-01 on, and                    *)
(* Err(InvalidArgument) before 1873; so 1989-01-07 gives S640107,          *)
(* 1989-01-08 gives H010108, 2019-04-30 gives H310430 and 2019-05-01 gives *)
(* R010501.                                                                *)
(***************************************************************************)
\* Date d is on or after day dd of month m of year y.
OnOrAfter(d, y, m, dd) ==
    \/ d.year > y
    \/ d.year = y /\ d.month > m
    \/ d.year = y /\ d.month = m /\ d.day >= dd

EraOf(d) ==
    IF OnOrAfter(d, 2019, 5, 1) THEN "Reiwa"
    ELSE IF OnOrAfter(d, 1989, 1, 8) THEN "Heisei"
    ELSE IF OnOrAfter(d, 1926, 12, 25) THEN "Showa"
    ELSE IF OnOrAfter(d, 1912, 7, 30) THEN "Taisho"
    ELSE IF OnOrAfter(d, 1873, 1, 1) THEN "Meiji"
    ELSE "none"

EraYearBase(era) ==
    CASE era = "Reiwa" -> 2018 [] era = "Heisei" -> 1988 [] era = "Showa" -> 1925
      [] era = "Taisho" -> 1911 [] era = "Meiji" -> 1867

EraLetter(era) ==
    CASE era = "Reiwa" -> "R" [] era = "Heisei" -> "H" [] era = "Showa" -> "S"
      [] era = "Taisho" -> "T" [] era = "Meiji" -> "M"

EraForm(d) ==
    <<EraLetter(EraOf(d))>> \o ZeroPad(to_string(d.year - EraYearBase(EraOf(d))), 2)
        \o ZeroPad(to_string(d.month), 2) \o ZeroPad(to_string(d.day), 2)

C16_EraBoundaries ==
    (op = "try_to_wareki7" /\ result # <<>>) =>
        /\ EraOf(arg[1]) = "none" => Fails("InvalidArgument")
        /\ EraOf(arg[1]) # "none" => result[1] = Ok(EraForm(arg[1]))
        /\ arg[1] = Seireki(1989, 1, 7) => result[1] = Ok(<<"S", "6", "4", "0", "1", "0", "7">>)
        /\ arg[1] = Seireki(1989, 1, 8) => result[1] = Ok(<<"H", "0", "1", "0", "1", "0", "8">>)
        /\ arg[1] = Seireki(2019, 4, 30) => result[1] = Ok(D_Heisei)
        /\ arg[1] = Seireki(2019, 5, 1) => result[1] = Ok(D_Wareki7)

\* The date 1989-01-08, the first day of Heisei, has been converted to "H010108".
C16_FirstDayOfHeisei ==
    /\ op = "try_to_wareki7" /\ arg = <<Seireki(1989, 1, 8)>>
    /\ result = <<Ok(<<"H", "0", "1", "0", "1", "0", "8">>)>>

(***************************************************************************)
(* C17: era round trip.  For every valid Gregorian date d with a           *)
(* four-digit year, on or after 1873-01-01, d.try_to_wareki7() is one      *)
(* letter and six digits, Date::from_str of it succeeds, and to_seireki8() *)
(* of the parsed date equals d.to_seireki8().                              *)
(***************************************************************************)
ParsesBackTo(s, d) ==
    /\ Date_from_str(s).ok
    /\ Date_to_seireki8(Val(Date_from_str(s))) = Date_to_seireki8(d)

C17_EraRoundTrip ==
    (op = "try_to_wareki7" /\ result # <<>> /\ OnOrAfter(arg[1], 1873, 1, 1)) =>
        /\ result[1].ok
        /\ Len(Val(result[1])) = 7
        /\ ParsesBackTo(Val(result[1]), arg[1])

\* The date 2118-01-01 has been converted to "R1000101", one letter and seven
\* digits, and Date::from_str returns Err(InvalidArgument) on that string.
C17_YearHundredOfReiwa ==
    /\ op = "try_to_wareki7" /\ arg = <<Seireki(2118, 1, 1)>>
    /\ result = <<Ok(<<"R", "1", "0", "0", "0", "1", "0", "1">>)>>
    /\ ~Date_from_str(Val(result[1])).ok
    /\ Date_from_str(Val(result[1])).err = "InvalidArgument"

(***************************************************************************)
(* C18: date parsing validates month and day.  Date::from_str, and every   *)
(* record parser that reads a date field, fails on a date string whose     *)
(* month is outside 1..12 or whose day does not exist in that month of     *)
(* that year (of the Gregorian year the era year stands for): month 13,    *)
(* day 00, 30 February.                                                    *)
(***************************************************************************)
\* The number of the record a record type parses; 0 for Version.
RecordTag(t) ==
    CASE t = "VersionRecord" -> 0 [] t = "PatientRecord" -> 1
      [] t = "SpecialPatientNoteRecord" -> 2 [] t = "OtcDrugRecord" -> 3
      [] t = "MemoRecord" -> 4 [] t = "DateRecord" -> 5 [] t = "PharmacyRecord" -> 11
      [] t = "PharmacistRecord" -> 15 [] t = "MedicalInstitutionRecord" -> 51
      [] t = "PhysicianRecord" -> 55 [] t = "DrugRecord" -> 201
      [] t = "DrugSupplementaryRecord" -> 281 [] t = "DrugNoticeRecord" -> 291
      [] t = "UsageRecord" -> 301 [] t = "UsageSupplementaryRecord" -> 311
      [] t = "RpNoticeRecord" -> 391 [] t = "NoticeRecord" -> 401
      [] t = "InformationProvisionRecord" -> 411 [] t = "NoteRecord" -> 501
      [] t = "FromPatientRecord" -> 601 [] t = "FamilyPharmacistRecord" -> 701

\* The positions of the date fields among the comma-separated fields of a line.
DateFields(t) ==
    CASE t = "PatientRecord" -> {4} [] t = "OtcDrugRecord" -> {3, 4}
      [] t = "MemoRecord" -> {3} [] t = "DateRecord" -> {2}
      [] t = "FromPatientRecord" -> {3} [] t = "FamilyPharmacistRecord" -> {5, 6}
      [] OTHER -> {}

\* Day d of month m does not exist in year y.
NoDay(y, m, d) == ~(m \in 1..12 /\ d \in 1..DaysInMonth(y, m))

\* s is 8 digits, or an era letter and 6 digits, and names a day that does not exist.
NoSuchDay(s) ==
    \/ /\ Len(s) = 8 /\ AllIn(s, AsciiDigit)
       /\ NoDay(DecimalValue(SubSeq(s, 1, 4)), DecimalValue(SubSeq(s, 5, 6)),
                DecimalValue(SubSeq(s, 7, 8)))
    \/ /\ Len(s) = 7 /\ s[1] \in {"R", "H", "S", "T", "M"} /\ AllIn(SubSeq(s, 2, 7), AsciiDigit)
       /\ NoDay(DecimalValue(SubSeq(s, 2, 3))
                    + (CASE s[1] = "R" -> 2018 [] s[1] = "H" -> 1988 [] s[1] = "S" -> 1925
                         [] s[1] = "T" -> 1911 [] s[1] = "M" -> 1867),
                DecimalValue(SubSeq(s, 4, 5)), DecimalValue(SubSeq(s, 6, 7)))

C18_DateValidated ==
    /\ (target = "Date" /\ op = "from_str" /\ result # <<>> /\ NoSuchDay(arg[1]))
           => ~result[1].ok
    /\ (target \in Records /\ op = "from_str" /\ result # <<>>
           /\ \E i \in DateFields(target) :
                  i <= Len(Fields(arg[1])) /\ NoSuchDay(Fields(arg[1])[i]))
           => ~result[1].ok

\* Date::from_str("20201301") has returned Ok of a date with month 13, on which
\* to_naivedate panics.
C18_MonthThirteen ==
    /\ target = "Date" /\ op = "from_str" /\ arg = <<D_Month13>>
    /\ result = <<Ok(Seireki(2020, 13, 1))>>
    /\ Date_to_naivedate(Val(result[1])) = Panic

(***************************************************************************)
(* C19: the forms of a date.  Date::from_str accepts exactly two forms: a  *)
(* string of exactly 8 decimal digits, parsed as Seireki, and a string of  *)
(* one letter R, H, S, T or M followed by exactly 6 decimal digits, parsed *)
(* as Wareki; on every other string, strings of 6 or 7 digits included, it *)
(* returns Err(InvalidArgument).                                           *)
(***************************************************************************)
IsSeireki8(s) == Len(s) = 8 /\ AllIn(s, AsciiDigit)

IsWareki7(s) ==
    Len(s) = 7 /\ s[1] \in {"R", "H", "S", "T", "M"} /\ AllIn(SubSeq(s, 2, 7), AsciiDigit)

C19_DateForms ==
    (target = "Date" /\ op = "from_str" /\ result # <<>>) =>
        IF IsSeireki8(arg[1]) THEN result[1].ok /\ Val(result[1]).form = "Seireki"
        ELSE IF IsWareki7(arg[1]) THEN result[1].ok /\ Val(result[1]).form = "Wareki"
        ELSE Fails("InvalidArgument")

\* Date::from_str("202001"), a string of 6 digits, has panicked.
C19_SixDigits ==
    /\ target = "Date" /\ op = "from_str" /\ arg = <<D_Digits6>>
    /\ result = <<Panic>>

(***************************************************************************)
(* C20: error kinds of the parser of a single record.  A line that does    *)
(* not match the schema of the record, or whose first field is not the     *)
(* number of the record, fails with InvalidRecordLine; a line that matches *)
(* both and has fields that are no values of their types fails with the    *)
(* error of the leftmost such field, unchanged: InvalidArgument from an    *)
(* enumeration or a date, ParseIntError from a number.                     *)
(***************************************************************************)
\* The lines with a wrong number of fields or a malformed first field.
SchemaMismatch == {R_DrugShort, R_VersionOneDigit}

\* The lines whose fields are not all values of their types: the kind of
\* the error of the leftmost such field and the text the error quotes.
InvalidSubfields ==
    {[line |-> R_DrugRpOverflow, kind |-> "ParseIntError",
      got |-> <<"9", "9", "9", "9", "9", "9", "9", "9", "9", "9", "9">>],
     [line |-> R_DrugFullwidthRp, kind |-> "ParseIntError", got |-> <<"FW1">>],
     [line |-> R_DrugBadType, kind |-> "InvalidArgument", got |-> <<"5">>],
     [line |-> R_DrugBadCreator, kind |-> "InvalidArgument", got |-> <<"3">>],
     [line |-> R_DrugNoType, kind |-> "InvalidArgument", got |-> <<>>],
     [line |-> R_PatientBadGender, kind |-> "InvalidArgument", got |-> <<"3">>],
     [line |-> R_PatientBadDate, kind |-> "InvalidArgument",
      got |-> <<"X", "8", "0", "0", "1", "0", "1">>],
     [line |-> R_PatientFullwidthDate, kind |-> "InvalidArgument",
      got |-> <<"1", "9", "8", "0", "0", "1", "0", "FW1">>],
     [line |-> R_DateBadCreator, kind |-> "InvalidArgument", got |-> <<"5">>],
     [line |-> R_FromBadDate, kind |-> "InvalidArgument",
      got |-> <<"X", "0", "1", "0", "1", "0", "1">>],
     [line |-> R_VersionBadCategory, kind |-> "InvalidArgument", got |-> <<"3">>]}

C20_ErrorKinds ==
    (target \in Records /\ op = "from_str" /\ result # <<>>) =>
        /\ Tag(arg[1]) # RecordTag(target) => Fails("InvalidRecordLine")
        /\ arg[1] \in SchemaMismatch => Fails("InvalidRecordLine")
        /\ \A e \in InvalidSubfields :
               (e.line = arg[1] /\ Tag(arg[1]) = RecordTag(target))
                   => Fails(e.kind) /\ result[1].got = e.got

\* PatientRecord::from_str has panicked on the line "1,a,1,1980010#,,,,,,,", whose
\* date field ends with the digit U+FF11.
C20_FullwidthDatePanics ==
    /\ target = "PatientRecord" /\ op = "from_str" /\ arg = <<R_PatientFullwidthDate>>
    /\ result = <<Panic>>

(***************************************************************************)
(* C21: prefecture spellings.  For each of the 47 prefectures p, the code, *)
(* JP- and the code, the Japanese name with and without its suffix and the *)
(* romanized name each parse to p, and p.to_code() is the two-digit code   *)
(* of its number.                                                          *)
(***************************************************************************)
C21_PrefectureSpellings ==
    /\ (target = "Prefecture" /\ op = "from_str" /\ result # <<>>)
           => \A p \in Prefecture : arg[1] \in Spellings(p) => result[1] = Ok(p)
    /\ (target = "Prefecture" /\ op = "to_code" /\ code # <<>>)
           => /\ Len(code[1]) = 2
              /\ DecimalValue(code[1]) = Prefecture_as_u32(arg[1])

\* The short name of Osaka, U+5927 U+962A, has been parsed and rejected: the
\* parser lists U+5927 U+5742 in its place.
C21_OsakaShortName ==
    /\ target = "Prefecture" /\ op = "from_str"
    /\ arg = <<ShortName("Osaka")>> /\ arg = <<<<"U+5927", "U+962A">>>>
    /\ result = <<Err("InvalidArgument", <<"U+5927", "U+962A">>)>>

(***************************************************************************)
(* C22: every enumeration's from_str accepts the canonical label.  For     *)
(* every value v of every enumeration, from_str of the Display text of v   *)
(* returns Ok(v).                                                          *)
(***************************************************************************)
C22_LabelAccepted ==
    (target \in Enums /\ op = "from_str" /\ result # <<>>)
        => \A v \in Values(target) : arg[1] = Enum_fmt(target, v) => result[1] = Ok(v)

\* The label of OutputCategory::ToPatient has been parsed and rejected.
C22_OutputCategoryLabel ==
    /\ target = "OutputCategory" /\ op = "from_str"
    /\ arg = <<OutputCategory_fmt("ToPatient")>>
    /\ ~result = <<>> /\ ~result[1].ok /\ result[1].err = "InvalidArgument"

(***************************************************************************)
(* C23: FromPatientRecord::from_str decides created_at from the date       *)
(* field.  For every line 601,<content>,<date> that matches the schema,    *)
(* the result is Ok with created_at = None when <date> is empty, and Ok    *)
(* with created_at = Some(the parsed date) when <date> is a date,          *)
(* whether or not <content> is empty.                                      *)
(***************************************************************************)
Is601(s) ==
    LET f == Fields(s)
    IN  Len(f) = 3 /\ f[1] = <<"6", "0", "1">> /\ RxDateOpt(f[3])

C23_CreatedAtFromDateField ==
    (target = "FromPatientRecord" /\ op = "from_str" /\ result # <<>> /\ Is601(arg[1]))
        => LET f == Fields(arg[1])
               date == Date_from_str(f[3])
           IN  IF f[3] = <<>>
               THEN result[1] = Ok([content |-> f[2], created_at |-> None])
               ELSE date.ok
                       => result[1] = Ok([content |-> f[2], created_at |-> Some(Val(date))])

\* The line "601,,20200101", with no content and a date, has been parsed to a
\* record without the date.
C23_DateDroppedWithoutContent ==
    /\ target = "FromPatientRecord" /\ op = "from_str" /\ arg = <<L_From601NoContent>>
    /\ Fields(arg[1])[3] = D_Seireki8
    /\ result = <<Ok([content |-> <<>>, created_at |-> None])>>

(***************************************************************************)
(* C24: RpBlock::from_str without a DrugBlock or without a Usage.  Stated  *)
(* for texts of well-formed record lines of a RpBlock (201, 281, 291, 301, *)
(* 311, 391) with no 201 line or no 301 line.                              *)
(***************************************************************************)
RpTags == {201, 281, 291, 301, 311, 391}

\* A text of well-formed lines of a RpBlock that lacks a DrugBlock or a Usage.
LacksDrugOrUsage ==
    /\ Parsed("RpBlock") /\ AllRecordLines
    /\ \A i \in 1..Len(All) : Tag(All[i]) \in RpTags
    /\ \/ \A i \in 1..Len(All) : Tag(All[i]) # 201
       \/ \A i \in 1..Len(All) : Tag(All[i]) # 301

\* As stated: every such text fails with MissingRequiredRecord, the text
\* whose first line is a 301 line included.
C24_MissingRequired == LacksDrugOrUsage => Fails("MissingRequiredRecord")

\* As the code has it: the empty text, and a text of 201, 281 and 291 lines
\* that begins with a 201 line, fail with MissingRequiredRecord; every other
\* such text, the one whose first line is a 301 line included, fails with
\* GotUnexpectedRecordLine at the first line the parser does not expect.
C24_MissingOrUnexpected ==
    LacksDrugOrUsage
        => IF /\ \A i \in 1..Len(All) : Tag(All[i]) \in {201, 281, 291}
              /\ (All = <<>> \/ Tag(All[1]) = 201)
           THEN Fails("MissingRequiredRecord")
           ELSE Fails("GotUnexpectedRecordLine")

\* The text of one Usage(301) line has been parsed as a RpBlock and was
\* rejected as an unexpected line.
C24_UsageFirst ==
    /\ Parsed("RpBlock")
    /\ All = <<L_Usage301>>
    /\ result[1] = Err("GotUnexpectedRecordLine", L_Usage301)

(***************************************************************************)
(* C25: PrescriptionBlock::from_str takes a Physician(55) line only as the *)
(* first non-blank line.  A 55 line that follows a 201, 281, 291, 301, 311 *)
(* or 391 line, and a second 55 line, make the parse fail with             *)
(* GotUnexpectedRecordLine.  Stated for texts of well-formed record lines  *)
(* and blank lines.                                                        *)
(***************************************************************************)
C25_PhysicianFirst ==
    (/\ Parsed("PrescriptionBlock")
     /\ \A i \in 1..Len(All) : All[i] \in RecordLines \cup {L_Blank}
     /\ \E i \in 1..Len(All) : \E j \in (i + 1)..Len(All) :
            Tag(All[i]) \in PrescriptionTags /\ Tag(All[j]) = 55)
        => Fails("GotUnexpectedRecordLine")

\* A complete RpBlock (201, 301) followed by a Physician(55) line has been
\* parsed and was rejected at the 55 line.
C25_PhysicianAfterRpBlock ==
    /\ Parsed("PrescriptionBlock")
    /\ All = <<L_Drug201, L_Usage301, L_Physician55>>
    /\ result[1] = Err("GotUnexpectedRecordLine", <<"PhysicianRecord must exist before RpBlock">>)

(***************************************************************************)
(* C26: PrescriptionBlock::from_str splits its 201..391 lines into         *)
(* RpBlocks at every 201 line that follows a 301 line.  Whenever the parse *)
(* succeeds, the number of RpBlocks is the number of 301 lines, every      *)
(* RpBlock holds a Usage and at least one DrugBlock, and the lines of the  *)
(* RpBlocks, one block after the other, are the 201..391 lines of the      *)
(* input in their order (each line in the form its record serializes to).  *)
(***************************************************************************)
RecordOfTag(n) ==
    CASE n = 201 -> "DrugRecord"
      [] n = 281 -> "DrugSupplementaryRecord"
      [] n = 291 -> "DrugNoticeRecord"
      [] n = 301 -> "UsageRecord"
      [] n = 311 -> "UsageSupplementaryRecord"
      [] n = 391 -> "RpNoticeRecord"

\* The line its record serializes to: "201,01,.." and "201,1,.." are one line.
Canonical(line) ==
    Record_to_code(RecordOfTag(Tag(line)),
                   Val(Record_from_str(RecordOfTag(Tag(line)), line)))

IsRpLine(line) == Tag(line) \in RpTags
IsUsageLine(line) == Tag(line) = 301

\* The lines of the RpBlocks of a PrescriptionBlock, one block after the other.
RpLines(b) == str_lines(PrescriptionBlock_to_code([physician |-> None, rps |-> b.rps]))

C26_RpBlockSplit ==
    (Parsed("PrescriptionBlock") /\ result[1].ok)
        => LET b == Val(result[1])
               in == SelectSeq(All, IsRpLine)
           IN  /\ Len(b.rps) = Len(SelectSeq(All, IsUsageLine))
               /\ \A k \in 1..Len(b.rps) :
                      /\ Len(b.rps[k].drugs) >= 1
                      /\ Len(SelectSeq(str_lines(RpBlock_to_code(b.rps[k])), IsUsageLine)) = 1
               /\ RpLines(b) = [i \in 1..Len(in) |-> Canonical(in[i])]

\* The text 201, 301, 391, 311 has been parsed to one RpBlock, whose lines
\* are 201, 301, 311, 391: the 311 line has moved before the 391 line.
C26_NoticeBeforeSupplement ==
    /\ Parsed("PrescriptionBlock") /\ result[1].ok
    /\ All = <<L_Drug201, L_Usage301, L_RpNotice391, L_UsageSupp311>>
    /\ Len(Val(result[1]).rps) = 1
    /\ RpLines(Val(result[1])) = <<L_Drug201, L_Usage301, L_UsageSupp311, L_RpNotice391>>

(***************************************************************************)
(* C27: the section watermark is monotonic.  During                        *)
(* MedicineNotebook::from_str and DispensingInformationBlock::from_str the *)
(* variable cur_num never decreases from one processed line to the next.   *)
(***************************************************************************)
\* cur_num after the lines ls have gone through the loop of the parser of t.
Watermark(t, ls) ==
    IF t = "MedicineNotebook"
    THEN MedicineNotebook_loop(ls, 1, MedicineNotebook_init).cur_num
    ELSE DispensingInformationBlock_loop(ls, 1, DispensingInformationBlock_init).cur_num

C27_WatermarkMonotonic ==
    (target \in {"MedicineNotebook", "DispensingInformationBlock"} /\ doc = <<>>)
        => \A k \in 1..Len(All) :
               Watermark(target, SubSeq(All, 1, k - 1)) <= Watermark(target, SubSeq(All, 1, k))

\* A Pharmacy(11) line followed by a Date(5) line has gone through
\* DispensingInformationBlock::from_str: cur_num was 11 after the first line
\* and is 5 after the second, and the parse returned Ok.
C27_DateAfterPharmacy ==
    /\ Parsed("DispensingInformationBlock")
    /\ All = <<L_Pharmacy11, L_Date5>>
    /\ Watermark(target, <<L_Pharmacy11>>) = 11
    /\ Watermark(target, All) = 5
    /\ result[1].ok

(***************************************************************************)
(* C28: serialization of a parsed notebook is stable.  For every text T    *)
(* that MedicineNotebook::from_str parses to Ok(D),                        *)
(* MedicineNotebook::from_str(D.to_code()) returns Ok(D) too.              *)
(***************************************************************************)
C28_StableSerialization ==
    (target = "MedicineNotebook" /\ doc = <<>> /\ code # <<>>)
        => MedicineNotebook_from_str(code[1]) = result[1]

\* A text that ends with the line "601,,20200101" has been parsed to Ok and
\* serialized: the output ends with the line "601,," of 5 characters, on
\* which MedicineNotebook::from_str panics.
C28_ShortLineOnReparse ==
    /\ target = "MedicineNotebook" /\ doc = <<>> /\ code # <<>>
    /\ All = <<L_Version, L_Patient, L_Date5, L_Pharmacy11, L_From601NoContent>>
    /\ result[1].ok
    /\ str_lines(code[1]) = <<L_Version, L_Patient, L_Date5, L_Pharmacy11, L_From601Empty>>
    /\ MedicineNotebook_from_str(code[1]) = Panic

(***************************************************************************)
(* C29: the dispensing blocks of a parsed notebook.  Whenever              *)
(* MedicineNotebook::from_str succeeds, the number of                      *)
(* DispensingInformationBlocks of the result is the number of input lines  *)
(* that start with "5,", and each block is made of the lines from its "5," *)
(* line up to the line before the next "5," or "701," line.                *)
(***************************************************************************)
StartsBlock(line) == HasPrefix(line, <<"5", ",">>)
EndsBlock(line) == StartsBlock(line) \/ HasPrefix(line, <<"7", "0", "1", ",">>)

\* The index of the k-th line that starts with "5,".
BlockStart(k) ==
    CHOOSE i \in 1..Len(All) :
        /\ StartsBlock(All[i])
        /\ Cardinality({j \in 1..i : StartsBlock(All[j])}) = k

\* The lines from the k-th "5," line up to the line before the next "5," or
\* "701," line, or up to the last line.
BlockLines(k) ==
    LET i == BlockStart(k)
        ends == {j \in (i + 1)..Len(All) : EndsBlock(All[j])}
        last == IF ends = {} THEN Len(All)
                ELSE (CHOOSE j \in ends : \A m \in ends : j <= m) - 1
    IN  SubSeq(All, i, last)

C29_BlockBoundaries ==
    (target = "MedicineNotebook" /\ doc = <<>> /\ result # <<>> /\ result[1].ok)
        => LET d == Val(result[1]).dispensing_information
           IN  /\ Len(d) = Len(SelectSeq(All, StartsBlock))
               /\ \A k \in 1..Len(d) :
                      Ok(d[k]) = DispensingInformationBlock_from_str(Join(BlockLines(k), CRLF))

\* A text with two Date(5) lines and a FamilyPharmacist(701) line has been
\* parsed to a notebook of two blocks; the second block is made of the
\* lines 5, 11.
C29_TwoBlocks ==
    /\ target = "MedicineNotebook" /\ doc = <<>> /\ result # <<>> /\ result[1].ok
    /\ All = <<L_Version, L_Patient, L_Date5, L_Pharmacy11, L_Date5, L_Pharmacy11, L_Family701>>
    /\ Len(Val(result[1]).dispensing_information) = 2
    /\ BlockLines(2) = <<L_Date5, L_Pharmacy11>>

(***************************************************************************)
(* The order of errors.  The notebook parsed from the first i lines alone  *)
(* tells what line i raises: every pending line is parsed at the end of    *)
(* the text.  MissingRequiredRecord is the error of an incomplete text,    *)
(* not of a line.                                                          *)
(***************************************************************************)
UpTo(i) == MedicineNotebook_from_str(Join(SubSeq(All, 1, i), CRLF))

Offending(i) == ~UpTo(i).ok /\ UpTo(i).err # "MissingRequiredRecord"

EarliestOffending ==
    CHOOSE i \in 1..Len(All) : Offending(i) /\ \A j \in 1..(i - 1) : ~Offending(j)

\* C30: when MedicineNotebook::from_str fails on a text with offending lines,
\* the error returned is the one the earliest offending line raises; no error
\* of a later line takes its place.
C30_EarliestError ==
    (Parsed("MedicineNotebook") /\ \E i \in 1..Len(All) : Offending(i))
        => result[1] = UpTo(EarliestOffending)

\* A second pharmacy line inside a dispensing block, then a line with no
\* known tag: the error names the later line.
C30_LaterLineReported ==
    /\ Parsed("MedicineNotebook")
    /\ All = <<L_Version, L_Patient, L_Date5, L_Pharmacy11, L_Pharmacy11, L_Unknown8>>
    /\ UpTo(5) = Err("GotUnexpectedRecordLine", L_Pharmacy11)
    /\ result[1] = Err("GotUnexpectedRecordLine", L_Unknown8)
====
